---- MODULE Spec2Model ----
(***************************************************************************)
(* EMS-Backend: the relational store (paid_expense, expense_request,       *)
(* budget), the CRUD handlers that write it and the PayExpense handler     *)
(* that evaluates a payment against its budget.                            *)
(*                                                                         *)
(* Representation.  Money (NUMERIC / float64) is an integer number of      *)
(* cents; a threshold ratio is an integer number of hundredths.  The       *)
(* values used are ones for which the float64 arithmetic of the handler is *)
(* exact.  A timestamp is a record [year, month, day].  A table is the set *)
(* of its rows.  Every handler is one action per SQL statement it issues:  *)
(* statements of different requests interleave freely.                     *)
(***************************************************************************)
EXTENDS Integers, Sequences, FiniteSets, TLC

\* ---------------------------------------------------------------- bounds
\* Rows the paid_expense serial hands out before inserts are cut off.
MaxPaidID == 2
\* Rows the expense_request serial hands out before inserts are cut off.
MaxReqID == 1
\* Half days the store's clock advances past noon of 2024-12-31.
MaxTicks == 1

\* Rows the users, expense_activity and announcement serials hand out to
\* requests before inserts are cut off.
MaxOtherID == 1
\* UpdateBudget requests that can be in flight at once.
MaxUpdaters == 2
MaxActivityID == 2
MaxRestarts == 2

VARIABLES
    clock,            \* half days elapsed since noon of 2024-12-31 (what NOW() is derived from)
    paid_expense,     \* table paid_expense: set of rows
    paidSeq,          \* last value of paid_expense_id_seq
    expense_request,  \* table expense_request: set of rows
    reqSeq,           \* last value of expense_request_id_seq
    budget,           \* table budget: set of rows
    users,            \* table users
    userSeq,          \* last value of users_id_seq
    unit,             \* table unit
    expense_category, \* table expense_category
    expense_activity, \* table expense_activity
    activitySeq,      \* last value of expense_activity_id_seq
    announcement,     \* table announcement
    announcementSeq,  \* last value of announcement_id_seq
    ev,               \* the PayExpense request in flight: its position and locals
    ev2,              \* a second PayExpense request in flight, served concurrently
    up,               \* the UpdatePaidExpense request in flight: its position and locals
    ub,               \* the UpdateBudget requests in flight: position and locals of each
    reply             \* the last request answered by a CRUD handler, with its response

paidVars == <<paid_expense, paidSeq>>
reqVars == <<expense_request, reqSeq>>
otherVars == <<users, userSeq, unit, expense_category, expense_activity, activitySeq,
               announcement, announcementSeq>>
\* The eight tables.
tables == <<users, unit, expense_category, expense_request, expense_activity,
            paid_expense, budget, announcement>>
vars == <<clock, paidVars, reqVars, budget, otherVars, ev, ev2, up, ub, reply>>

\* ------------------------------------------------------------ input sets
\* JSON bodies of POST/PUT /paid_expenses.  id is sent by some clients.
PaidBodies ==
    { [malformed |-> FALSE, id |-> 7, expenseID |-> 1, unitID |-> "A", category |-> "x", amount |-> 120000],
      [malformed |-> FALSE, id |-> 7, expenseID |-> 1, unitID |-> "B", category |-> "x", amount |-> 20000],
      [malformed |-> FALSE, id |-> 7, expenseID |-> 1, unitID |-> "A", category |-> "y", amount |-> 20000],
      [malformed |-> TRUE] }

\* JSON bodies of POST /paid_expenses and PUT /paid_expenses/{id} that
\* carry an id and a createdAt of the client's choosing.
PaidFullBodies ==
    { [malformed |-> FALSE, id |-> 2, expenseID |-> 1, unitID |-> "A", category |-> "x",
       amount |-> 120000, createdAt |-> [year |-> 2020, month |-> 1, day |-> 1]],
      [malformed |-> FALSE, id |-> 7, expenseID |-> 1, unitID |-> "B", category |-> "x",
       amount |-> 20000, createdAt |-> [year |-> 2020, month |-> 1, day |-> 1]],
      [malformed |-> FALSE, id |-> 0, expenseID |-> 1, unitID |-> "B", category |-> "x",
       amount |-> 20000, createdAt |-> [year |-> 2020, month |-> 1, day |-> 1]],
      [malformed |-> TRUE] }

\* The query parameters of GET /paid_expenses in the order the handler
\* reads them.
ListKeys == <<"expense_id", "unit_id", "category", "min_amount", "max_amount",
              "year", "month", "day">>

\* Query strings of GET /paid_expenses, each parameter as its characters,
\* << >> when it is absent or empty.
ListQueries ==
    [ expense_id : { << >>, <<"1">>, <<"x">> },
      unit_id    : { << >>, <<"A">> },
      category   : { << >>, <<"x">> },
      min_amount : { << >>, <<"1", "0", "0", "0">> },
      max_amount : { << >>, <<"1", "0", "0", "0">> },
      year       : { << >>, <<"2", "0", "2", "5">> },
      month      : { << >>, <<"1">> },
      day        : { << >>, <<"1">> } ]

\* Bodies of a payment and of a negative payment of one unit and category.
SignedBodies ==
    { [malformed |-> FALSE, id |-> 7, expenseID |-> 1, unitID |-> "A", category |-> "x", amount |-> 120000],
      [malformed |-> FALSE, id |-> 7, expenseID |-> 1, unitID |-> "A", category |-> "x", amount |-> -20000] }

\* Bodies of two payments of one unit and category, of different amounts.
PairBodies ==
    { [malformed |-> FALSE, id |-> 7, expenseID |-> 1, unitID |-> "A", category |-> "x", amount |-> 120000],
      [malformed |-> FALSE, id |-> 7, expenseID |-> 1, unitID |-> "A", category |-> "x", amount |-> 20000] }

\* JSON bodies of POST /expense_requests.
RequestBodies ==
    { [malformed |-> FALSE, userID |-> 1, unitID |-> "A", amount |-> 20000, category |-> "x", isFinalized |-> FALSE],
      [malformed |-> TRUE] }

\* JSON bodies of PUT /expense_requests/{id}.
RequestUpdateBodies ==
    { [malformed |-> FALSE, userID |-> 2, unitID |-> "B", amount |-> 5000, category |-> "y", isFinalized |-> TRUE],
      [malformed |-> TRUE] }

\* JSON bodies of POST /budgets.
BudgetBodies ==
    { [malformed |-> FALSE, unitID |-> "A", category |-> "x", year |-> 2024, budgetLimit |-> 100000, thresholdRatio |-> 10],
      [malformed |-> FALSE, unitID |-> "A", category |-> "x", year |-> 2025, budgetLimit |-> 20000, thresholdRatio |-> 50],
      [malformed |-> TRUE] }

\* JSON bodies of POST /budgets for one key, with a narrow and with a wide
\* threshold.
ThresholdBodies ==
    { [malformed |-> FALSE, unitID |-> "A", category |-> "x", year |-> 2024, budgetLimit |-> 100000, thresholdRatio |-> 10],
      [malformed |-> FALSE, unitID |-> "A", category |-> "x", year |-> 2024, budgetLimit |-> 100000, thresholdRatio |-> 50] }

\* The {id} segment of POST /expense_requests/{id}/pay, as its characters:
\* the route puts no pattern on it.
PayPaths == { <<"1">>, <<"2">>, <<"-", "1">>, <<"1", "x">> }

\* The {unit_id}, {category} and {year:[0-9]+} segments of /budgets/...
BudgetUnits == {"A"}
BudgetCategories == {"x"}
YearPaths == { <<"2", "0", "2", "4">>, <<"2", "0", "2", "5">>, <<"0">> }

\* ------------------------------------------------------------------ time
\* NOW() of the store n half days after noon of 2024-12-31, to the day.
Instant(n) ==
    IF n = 0 THEN [year |-> 2024, month |-> 12, day |-> 31]
             ELSE [year |-> 2025, month |-> 1, day |-> 1 + (n - 1) \div 2]

NOW == Instant(clock)

\* time.Time.Year() and EXTRACT(YEAR FROM ts).
YearOf(ts) == ts.year

\* --------------------------------------------------------------- strconv
DigitValue(c) ==
    CASE c = "0" -> 0 [] c = "1" -> 1 [] c = "2" -> 2 [] c = "3" -> 3 [] c = "4" -> 4
      [] c = "5" -> 5 [] c = "6" -> 6 [] c = "7" -> 7 [] c = "8" -> 8 [] c = "9" -> 9
      [] OTHER -> -1

RECURSIVE ParseDigits(_, _)
\* The value of a digit string, acc being the value of the digits read so
\* far; -1 when a character is no digit.
ParseDigits(s, acc) ==
    IF s = << >> THEN acc
    ELSE IF DigitValue(Head(s)) < 0 THEN -1
    ELSE ParseDigits(Tail(s), 10 * acc + DigitValue(Head(s)))

\* strconv.Atoi: an optional sign, then one or more decimal digits.
Atoi(s) ==
    LET signed == s # << >> /\ Head(s) \in {"+", "-"}
        digits == IF signed THEN Tail(s) ELSE s
        n      == ParseDigits(digits, 0)
    IN  IF digits = << >> \/ n < 0
        THEN [ok |-> FALSE, val |-> 0]
        ELSE [ok |-> TRUE, val |-> IF signed /\ Head(s) = "-" THEN 0 - n ELSE n]

\* ------------------------------------------------------------------- SQL
\* The error of QueryRow(...).Scan(...): the statement failed in the store
\* or on the connection, or it returned no row.
ScanErr(rows, fail) ==
    IF fail THEN "StoreFailure" ELSE IF rows = {} THEN "ErrNoRows" ELSE "nil"

RECURSIVE SumAmount(_)
\* SUM(amount) over a non-empty set of rows.
SumAmount(rows) ==
    IF rows = {} THEN 0
    ELSE LET r == CHOOSE r \in rows : TRUE
         IN  r.amount + SumAmount(rows \ {r})

\* SUM(amount) is NULL over no rows.
SqlSum(rows) == IF rows = {} THEN [null |-> TRUE, val |-> 0]
                             ELSE [null |-> FALSE, val |-> SumAmount(rows)]

\* COALESCE(v, d)
Coalesce(v, d) == IF v.null THEN d ELSE v.val

\* amount NUMERIC(7,2): at most five digits before the decimal point.
FitsNumeric72(cents) == cents > -10000000 /\ cents < 10000000

\* Mutant of SelectPaid: the {id} of /expense_requests/{id}/pay is matched
\* against expense_id.
SelectPaidByExpenseID(id) == { p \in paid_expense : p.expenseID = id }

\* SELECT ... FROM paid_expense WHERE id = $1
SelectPaid(id) == { p \in paid_expense : p.id = id }

\* SELECT created_at FROM expense_request WHERE id = $1
SelectRequest(id) == { r \in expense_request : r.id = id }

\* SELECT ... FROM budget WHERE unit_id = $1 AND expense_category = $2 AND year = $3
SelectBudget(unitID, category, year) ==
    { b \in budget : b.unitID = unitID /\ b.category = category /\ b.year = year }

\* Mutant of SelectSpent: the year condition is left out of the WHERE clause.
SelectSpentAnyYear(unitID, category, year) ==
    { p \in paid_expense : p.unitID = unitID /\ p.category = category }

\* The rows of: SELECT ... FROM paid_expense WHERE unit_id = $1 AND category = $2
\*              AND EXTRACT(YEAR FROM created_at) = $3
SelectSpent(unitID, category, year) ==
    { p \in paid_expense :
        p.unitID = unitID /\ p.category = category /\ YearOf(p.createdAt) = year }

\* rest := budget.BudgetLimit - spent
Rest(limit, spent) == limit - spent

\* Mutant of BudgetMax: the ratio is added without being applied to the limit.
BudgetMaxRatioAdded(limit, ratio) == limit + ratio

\* budgetMax := budget.BudgetLimit + (budget.ThresholdRatio * budget.BudgetLimit)
BudgetMax(limit, ratio) == limit + (ratio * limit) \div 100

\* ------------------------------------------------------------ PayExpense
\* http.Error(w, text, status) and return: the response of the request for
\* path, err being the error that was logged.
HttpError(path, status, text, err) ==
    [pc |-> "done", path |-> path, status |-> status, err |-> err, body |-> [text |-> text]]

\* Mutant of PayResult: the budget block carries the payment's creation year.
PayResultPaymentYear(path, paid, b, spent) ==
    [pc |-> "done", path |-> path, status |-> 200, err |-> "nil",
     body |-> [paidExpense |-> paid,
               budget |-> [year      |-> YearOf(paid.createdAt),
                           limit     |-> b.budgetLimit,
                           threshold |-> b.thresholdRatio,
                           spent     |-> spent,
                           rest      |-> Rest(b.budgetLimit, spent),
                           budgetMax |-> BudgetMax(b.budgetLimit, b.thresholdRatio)]]]

\* 5. Compute rest and budgetMax, 6. send response.
PayResult(path, paid, b, spent) ==
    [pc |-> "done", path |-> path, status |-> 200, err |-> "nil",
     body |-> [paidExpense |-> paid,
               budget |-> [year      |-> b.year,
                           limit     |-> b.budgetLimit,
                           threshold |-> b.thresholdRatio,
                           spent     |-> spent,
                           rest      |-> Rest(b.budgetLimit, spent),
                           budgetMax |-> BudgetMax(b.budgetLimit, b.thresholdRatio)]]]

\* Mutant of FetchPaid: the handler remembers the id it evaluated last and
\* answers 409 when it is asked for it again.
FetchPaidOnce(path, fail) ==
    LET id   == Atoi(path)
        rows == SelectPaid(id.val)
        err  == ScanErr(rows, fail)
    IN  IF ~id.ok THEN HttpError(path, 400, "Invalid ID", "Atoi")
        ELSE IF ev.pc = "done" /\ ev.status = 200 /\ ev.path = path
        THEN HttpError(path, 409, "Paid expense already evaluated", "nil")
        ELSE IF err # "nil" THEN HttpError(path, 404, "Paid expense not found", err)
        ELSE [pc |-> "fetchRequest", path |-> path, paid |-> CHOOSE p \in rows : TRUE]

\* Mutant of FetchPaid: the payment is read before the id is checked.
FetchPaidBeforeAtoi(path, fail) ==
    LET id   == Atoi(path)
        rows == SelectPaid(id.val)
        err  == ScanErr(rows, fail)
    IN  IF err # "nil" THEN HttpError(path, 404, "Paid expense not found", err)
        ELSE IF ~id.ok THEN HttpError(path, 400, "Invalid ID", "Atoi")
        ELSE [pc |-> "fetchRequest", path |-> path, paid |-> CHOOSE p \in rows : TRUE]

\* Mutant of FetchPaid: the path id names an expense request, and the
\* payment evaluated is one recorded for that request.
FetchPaidOfRequest(path, fail) ==
    LET id   == Atoi(path)
        rows == { p \in paid_expense : p.expenseID = id.val /\ SelectRequest(id.val) # {} }
        err  == ScanErr(rows, fail)
    IN  IF ~id.ok THEN HttpError(path, 400, "Invalid ID", "Atoi")
        ELSE IF err # "nil" THEN HttpError(path, 404, "Paid expense not found", err)
        ELSE [pc |-> "fetchRequest", path |-> path, paid |-> CHOOSE p \in rows : TRUE]

\* Atoi of the path id, then 1. Fetch the PaidExpense: the request's
\* position and locals after it.
FetchPaid(path, fail) ==
    LET id   == Atoi(path)
        rows == SelectPaid(id.val)
        err  == ScanErr(rows, fail)
    IN  IF ~id.ok THEN HttpError(path, 400, "Invalid ID", "Atoi")
        ELSE IF err # "nil" THEN HttpError(path, 404, "Paid expense not found", err)
        ELSE [pc |-> "fetchRequest", path |-> path, paid |-> CHOOSE p \in rows : TRUE]

\* Mutant of FetchRequest: a request that is not finalized is not paid.
FetchRequestFinalizedOnly(e, fail) ==
    LET rows == SelectRequest(e.paid.expenseID)
        err  == ScanErr(rows, fail)
    IN  IF err # "nil"
        THEN HttpError(e.path, 500, "Related expense request not found", err)
        ELSE IF ~(CHOOSE r \in rows : TRUE).isFinalized
        THEN HttpError(e.path, 409, "Expense request is not finalized", "nil")
        ELSE [pc |-> "fetchBudget", path |-> e.path, paid |-> e.paid,
              year |-> YearOf((CHOOSE r \in rows : TRUE).createdAt)]

\* 2. Fetch the corresponding ExpenseRequest to get year: the request e after it.
FetchRequest(e, fail) ==
    LET rows == SelectRequest(e.paid.expenseID)
        err  == ScanErr(rows, fail)
    IN  IF err # "nil"
        THEN HttpError(e.path, 500, "Related expense request not found", err)
        ELSE [pc |-> "fetchBudget", path |-> e.path, paid |-> e.paid,
              year |-> YearOf((CHOOSE r \in rows : TRUE).createdAt)]

\* 3. Fetch the Budget: the request e after it.
FetchBudget(e, fail) ==
    LET rows == SelectBudget(e.paid.unitID, e.paid.category, e.year)
        err  == ScanErr(rows, fail)
    IN  IF err # "nil" THEN HttpError(e.path, 500, "Budget not found", err)
        ELSE [pc |-> "sumSpent", path |-> e.path, paid |-> e.paid, year |-> e.year,
              budget |-> CHOOSE b \in rows : TRUE]

\* Mutant of SumSpent: the evaluated payment is left out of the sum.
SumSpentOfOthers(e, fail) ==
    LET rows  == { p \in SelectSpent(e.paid.unitID, e.paid.category, e.year) : p.id # e.paid.id }
        spent == Coalesce(SqlSum(rows), 0)
    IN  IF fail
        THEN HttpError(e.path, 500, "Failed to calculate spent amount", "StoreFailure")
        ELSE PayResult(e.path, e.paid, e.budget, spent)

\* Mutant of SumSpent: the evaluated payment is counted also when its row is
\* no longer among the rows summed.
SumSpentWithOwn(e, fail) ==
    LET rows  == SelectSpent(e.paid.unitID, e.paid.category, e.year)
        sum   == SqlSum(rows)
        spent == Coalesce(sum, 0)
                 + (IF \E p \in rows : p.id = e.paid.id THEN 0 ELSE e.paid.amount)
    IN  IF fail
        THEN HttpError(e.path, 500, "Failed to calculate spent amount", "StoreFailure")
        ELSE PayResult(e.path, e.paid, e.budget, spent)

\* Mutant of SumSpent: a payment that takes spent over budgetMax is refused.
SumSpentWithinBudgetMax(e, fail) ==
    LET sum   == SqlSum(SelectSpent(e.paid.unitID, e.paid.category, e.year))
        spent == Coalesce(sum, 0)
    IN  IF fail
        THEN HttpError(e.path, 500, "Failed to calculate spent amount", "StoreFailure")
        ELSE IF spent > BudgetMax(e.budget.budgetLimit, e.budget.thresholdRatio)
        THEN HttpError(e.path, 409, "Budget exceeded", "nil")
        ELSE PayResult(e.path, e.paid, e.budget, spent)

\* 4. Sum all paid amounts for same unit-category-year, then the response
\* of the request e.
SumSpent(e, fail) ==
    LET sum   == SqlSum(SelectSpent(e.paid.unitID, e.paid.category, e.year))
        spent == Coalesce(sum, 0)
    IN  IF fail
        THEN HttpError(e.path, 500, "Failed to calculate spent amount", "StoreFailure")
        ELSE PayResult(e.path, e.paid, e.budget, spent)

\* The response of PayExpense when no other request runs between its reads
\* and no read fails in the store.
PayExpense(path) ==
    CHOOSE e4 \in
        { IF e3.pc = "done" THEN e3 ELSE SumSpent(e3, FALSE) : e3 \in
        { IF e2.pc = "done" THEN e2 ELSE FetchBudget(e2, FALSE) : e2 \in
        { IF e1.pc = "done" THEN e1 ELSE FetchRequest(e1, FALSE) : e1 \in
        { FetchPaid(path, FALSE) } } } } : TRUE

\* A PayExpense request arrives and runs to the end of its first read.
PayFetchPaid(path, fail) ==
    /\ ev.pc \in {"idle", "done"}
    /\ ev' = FetchPaid(path, fail)
    /\ UNCHANGED <<clock, paidVars, reqVars, budget, otherVars, ev2, up, ub, reply>>

\* Mutant of PayFetchRequest: the year is taken from the payment's own
\* creation timestamp.
PayFetchRequestPaymentYear(fail) ==
    /\ ev.pc = "fetchRequest"
    /\ LET rows == SelectRequest(ev.paid.expenseID)
           err  == ScanErr(rows, fail)
       IN  ev' = IF err # "nil"
                 THEN HttpError(ev.path, 500, "Related expense request not found", err)
                 ELSE [pc |-> "fetchBudget", path |-> ev.path, paid |-> ev.paid,
                       year |-> YearOf(ev.paid.createdAt)]
    /\ UNCHANGED <<clock, paidVars, reqVars, budget, otherVars, ev2, up, ub, reply>>

\* Mutant of PayFetchRequest: a missing request is answered 404.
PayFetchRequest404(fail) ==
    /\ ev.pc = "fetchRequest"
    /\ LET rows == SelectRequest(ev.paid.expenseID)
           err  == ScanErr(rows, fail)
       IN  ev' = IF err # "nil"
                 THEN HttpError(ev.path, 404, "Related expense request not found", err)
                 ELSE [pc |-> "fetchBudget", path |-> ev.path, paid |-> ev.paid,
                       year |-> YearOf((CHOOSE r \in rows : TRUE).createdAt)]
    /\ UNCHANGED <<clock, paidVars, reqVars, budget, otherVars, ev2, up, ub, reply>>

\* Mutant of PayFetchRequest: the return after http.Error is missing, so the
\* handler goes on with the zero time.Time, whose Year() is 1.
PayFetchRequestNoReturn(fail) ==
    /\ ev.pc = "fetchRequest"
    /\ LET rows == SelectRequest(ev.paid.expenseID)
           err  == ScanErr(rows, fail)
       IN  ev' = [pc |-> "fetchBudget", path |-> ev.path, paid |-> ev.paid,
                  year |-> IF err # "nil" THEN 1
                           ELSE YearOf((CHOOSE r \in rows : TRUE).createdAt)]
    /\ UNCHANGED <<clock, paidVars, reqVars, budget, otherVars, ev2, up, ub, reply>>

\* The request goes through its second read.
PayFetchRequest(fail) ==
    /\ ev.pc = "fetchRequest"
    /\ ev' = FetchRequest(ev, fail)
    /\ UNCHANGED <<clock, paidVars, reqVars, budget, otherVars, ev2, up, ub, reply>>

\* Mutant of PayFetchBudget: a missing budget is answered 404.
PayFetchBudget404(fail) ==
    /\ ev.pc = "fetchBudget"
    /\ LET rows == SelectBudget(ev.paid.unitID, ev.paid.category, ev.year)
           err  == ScanErr(rows, fail)
       IN  ev' = IF err # "nil" THEN HttpError(ev.path, 404, "Budget not found", err)
                 ELSE [pc |-> "sumSpent", path |-> ev.path, paid |-> ev.paid, year |-> ev.year,
                       budget |-> CHOOSE b \in rows : TRUE]
    /\ UNCHANGED <<clock, paidVars, reqVars, budget, otherVars, ev2, up, ub, reply>>

\* The request goes through its third read.
PayFetchBudget(fail) ==
    /\ ev.pc = "fetchBudget"
    /\ ev' = FetchBudget(ev, fail)
    /\ UNCHANGED <<clock, paidVars, reqVars, budget, otherVars, ev2, up, ub, reply>>

\* Mutant of PaySumSpent: paying marks the linked request as finalized.
PaySumSpentFinalizes(fail) ==
    /\ ev.pc = "sumSpent"
    /\ LET sum   == SqlSum(SelectSpent(ev.paid.unitID, ev.paid.category, ev.year))
           spent == Coalesce(sum, 0)
       IN  ev' = IF fail
                 THEN HttpError(ev.path, 500, "Failed to calculate spent amount", "StoreFailure")
                 ELSE PayResult(ev.path, ev.paid, ev.budget, spent)
    /\ expense_request' = { IF r.id = ev.paid.expenseID THEN [r EXCEPT !.isFinalized = TRUE] ELSE r :
                            r \in expense_request }
    /\ UNCHANGED <<clock, paidVars, reqSeq, budget, otherVars, ev2, up, ub, reply>>

\* The request goes through its fourth read and answers.
PaySumSpent(fail) ==
    /\ ev.pc = "sumSpent"
    /\ ev' = SumSpent(ev, fail)
    /\ UNCHANGED <<clock, paidVars, reqVars, budget, otherVars, ev2, up, ub, reply>>

\* The same four steps of the second request.
Pay2FetchPaid(path, fail) ==
    /\ ev2.pc \in {"idle", "done"}
    /\ ev2' = FetchPaid(path, fail)
    /\ UNCHANGED <<clock, paidVars, reqVars, budget, otherVars, ev, up, ub, reply>>

Pay2FetchRequest(fail) ==
    /\ ev2.pc = "fetchRequest"
    /\ ev2' = FetchRequest(ev2, fail)
    /\ UNCHANGED <<clock, paidVars, reqVars, budget, otherVars, ev, up, ub, reply>>

Pay2FetchBudget(fail) ==
    /\ ev2.pc = "fetchBudget"
    /\ ev2' = FetchBudget(ev2, fail)
    /\ UNCHANGED <<clock, paidVars, reqVars, budget, otherVars, ev, up, ub, reply>>

Pay2SumSpent(fail) ==
    /\ ev2.pc = "sumSpent"
    /\ ev2' = SumSpent(ev2, fail)
    /\ UNCHANGED <<clock, paidVars, reqVars, budget, otherVars, ev, up, ub, reply>>

\* ---------------------------------------------------- paid_expense CRUD
RECURSIVE TextOf(_)
\* The string of a sequence of characters.
TextOf(chars) == IF chars = << >> THEN "" ELSE Head(chars) \o TextOf(Tail(chars))

\* The store's reading of a text parameter as a number: decimal digits.
PgNumber(chars) ==
    LET n == ParseDigits(chars, 0)
    IN  IF chars = << >> \/ n < 0 THEN [ok |-> FALSE, val |-> 0] ELSE [ok |-> TRUE, val |-> n]

\* The columns and expressions compared with text.
ListTextKeys == {"unit_id", "category"}

RECURSIVE BuildListMisnumbered(_, _, _, _, _)
\* BuildList of a handler that does not advance idx after the category
\* filter.
BuildListMisnumbered(q, k, filters, args, idx) ==
    IF k > Len(ListKeys) THEN [filters |-> filters, args |-> args]
    ELSE IF q[ListKeys[k]] = << >> THEN BuildListMisnumbered(q, k + 1, filters, args, idx)
    ELSE BuildListMisnumbered(q, k + 1,
                   Append(filters, [key |-> ListKeys[k], placeholder |-> idx]),
                   Append(args, q[ListKeys[k]]),
                   IF ListKeys[k] = "category" THEN idx ELSE idx + 1)

RECURSIVE BuildList(_, _, _, _, _)
\* The filters and args of ListPaidExpenses from parameter k on: each
\* non-empty parameter appends its condition with placeholder $idx and its
\* value, then idx++.
BuildList(q, k, filters, args, idx) ==
    IF k > Len(ListKeys) THEN [filters |-> filters, args |-> args]
    ELSE IF q[ListKeys[k]] = << >> THEN BuildList(q, k + 1, filters, args, idx)
    ELSE BuildList(q, k + 1,
                   Append(filters, [key |-> ListKeys[k], placeholder |-> idx]),
                   Append(args, q[ListKeys[k]]),
                   idx + 1)

\* Mutant of BuildQuery: the statement of the misnumbering handler.
BuildQueryMisnumbered(q) == BuildListMisnumbered(q, 1, << >>, << >>, 1)

\* The statement of ListPaidExpenses for the query string q: filters, args
\* and idx start as the empty lists and 1.
BuildQuery(q) == BuildList(q, 1, << >>, << >>, 1)

\* The store rejects the statement: a placeholder with no argument, or an
\* argument that is no number where the condition compares numbers.
ListQueryError(built) ==
    \E i \in 1..Len(built.filters) :
        LET f == built.filters[i]
        IN  \/ f.placeholder > Len(built.args)
            \/ f.key \notin ListTextKeys /\ ~PgNumber(built.args[f.placeholder]).ok

\* The condition f of the WHERE clause on the row p, $n being args[n].
ListCondition(p, f, args) ==
    LET arg == args[f.placeholder]
        num == PgNumber(arg).val
    IN  CASE f.key = "expense_id" -> p.expenseID = num
          [] f.key = "unit_id"    -> p.unitID = TextOf(arg)
          [] f.key = "category"   -> p.category = TextOf(arg)
          [] f.key = "min_amount" -> p.amount >= 100 * num
          [] f.key = "max_amount" -> p.amount <= 100 * num
          [] f.key = "year"       -> p.createdAt.year = num
          [] f.key = "month"      -> p.createdAt.month = num
          [] f.key = "day"        -> p.createdAt.day = num

\* The response of ListPaidExpenses to the query string q, with the
\* statement it built.
ListPaidExpensesResp(q, fail) ==
    LET built == BuildQuery(q)
    IN  IF fail \/ ListQueryError(built)
        THEN [status |-> 500, text |-> "Database query failed", built |-> built]
        ELSE [status |-> 200, built |-> built,
              body |-> { p \in paid_expense :
                           \A i \in 1..Len(built.filters) :
                               ListCondition(p, built.filters[i], built.args) }]

\* GET /paid_expenses: one SELECT, nothing written.
ListPaidExpenses(q, fail) ==
    /\ reply' = [op |-> "ListPaidExpenses", req |-> q, fail |-> fail,
                 resp |-> ListPaidExpensesResp(q, fail)]
    /\ UNCHANGED <<clock, paidVars, reqVars, budget, otherVars, ev, ev2, up, ub>>

\* Mutant of CreatePaidExpenseResp: a negative amount is refused.
CreatePaidExpenseRespNonNegative(body, fail) ==
    IF body.malformed THEN [status |-> 400, text |-> "Invalid JSON"]
    ELSE IF body.amount < 0 THEN [status |-> 400, text |-> "Invalid amount"]
    ELSE IF fail \/ ~FitsNumeric72(body.amount)
    THEN [status |-> 500, text |-> "Failed to create paid expense"]
    ELSE [status |-> 201,
          body |-> [id |-> paidSeq + 1, expenseID |-> body.expenseID, unitID |-> body.unitID,
                    category |-> body.category, amount |-> body.amount, createdAt |-> NOW]]

\* The response of CreatePaidExpense.
CreatePaidExpenseResp(body, fail) ==
    IF body.malformed THEN [status |-> 400, text |-> "Invalid JSON"]
    ELSE IF fail \/ ~FitsNumeric72(body.amount)
    THEN [status |-> 500, text |-> "Failed to create paid expense"]
    ELSE [status |-> 201,
          body |-> [id |-> paidSeq + 1, expenseID |-> body.expenseID, unitID |-> body.unitID,
                    category |-> body.category, amount |-> body.amount, createdAt |-> NOW]]

\* INSERT INTO paid_expense ... RETURNING id, created_at
CreatePaidExpense(body, fail) ==
    /\ paidSeq < MaxPaidID
    /\ LET resp == CreatePaidExpenseResp(body, fail)
       IN  IF resp.status = 201
           THEN /\ paid_expense' = paid_expense \cup {resp.body}
                /\ paidSeq' = paidSeq + 1
           ELSE UNCHANGED <<paid_expense, paidSeq>>
    /\ UNCHANGED <<clock, reqVars, budget, otherVars, ev, ev2, up, ub>>

\* Mutant of DeletePaidExpenseResp: a delete that matched no row is answered
\* like one that did.
DeletePaidExpenseRespIdempotent(id, fail) ==
    IF fail THEN [status |-> 500, text |-> "Failed to delete paid expense"]
    ELSE [status |-> 204]

\* The response of DeletePaidExpense.
DeletePaidExpenseResp(id, fail) ==
    IF fail THEN [status |-> 500, text |-> "Failed to delete paid expense"]
    ELSE IF SelectPaid(id) = {} THEN [status |-> 404, text |-> "Paid expense not found"]
    ELSE [status |-> 204]

\* DELETE FROM paid_expense WHERE id = $1
DeletePaidExpense(id, fail) ==
    /\ paid_expense' = IF fail THEN paid_expense ELSE paid_expense \ SelectPaid(id)
    /\ UNCHANGED <<clock, paidSeq, reqVars, budget, otherVars, ev, ev2, up, ub>>

\* One UpdatePaidExpense request for the row id of the path: the body, the
\* id in the body, then the existence check.  It answers, or goes on to
\* the UPDATE.
UpdatePaidExpenseCheck(id, body, fail) ==
    /\ up.pc = "idle"
    /\ LET req == [id |-> id, body |-> body]
           answer(resp) == /\ reply' = [op |-> "UpdatePaidExpense", req |-> req, resp |-> resp]
                           /\ UNCHANGED up
       IN  IF body.malformed THEN answer([status |-> 400, text |-> "Invalid JSON"])
           ELSE IF body.id = 0
           THEN answer([status |-> 400, text |-> "Missing or invalid ID in body"])
           ELSE IF fail THEN answer([status |-> 500, text |-> "Database error"])
           ELSE IF SelectPaid(id) = {}
           THEN answer([status |-> 404, text |-> "Paid expense not found"])
           ELSE /\ up' = [pc |-> "update", id |-> id, body |-> body]
                /\ UNCHANGED reply
    /\ UNCHANGED <<clock, paidVars, reqVars, budget, otherVars, ev, ev2, ub>>

\* Mutant of UpdatePaidExpenseExec: the row is selected by the id of the
\* body.
UpdatePaidExpenseExecBodyId(fail) ==
    /\ up.pc = "update"
    /\ LET old == SelectPaid(up.body.id)
           new == { [id |-> p.id, expenseID |-> up.body.expenseID, unitID |-> up.body.unitID,
                     category |-> up.body.category, amount |-> up.body.amount,
                     createdAt |-> p.createdAt] : p \in old }
           req == [id |-> up.id, body |-> up.body]
       IN  IF fail \/ ~FitsNumeric72(up.body.amount)
           THEN /\ paid_expense' = paid_expense
                /\ reply' = [op |-> "UpdatePaidExpense", req |-> req,
                             resp |-> [status |-> 500, text |-> "Database error"]]
           ELSE /\ paid_expense' = (paid_expense \ old) \cup new
                /\ reply' = [op |-> "UpdatePaidExpense", req |-> req,
                             resp |-> [status |-> 200, body |-> up.body]]
    /\ up' = [pc |-> "idle"]
    /\ UNCHANGED <<clock, paidSeq, reqVars, budget, otherVars, ev, ev2, ub>>

\* Mutant of UpdatePaidExpenseExec: an UPDATE that matched no row is
\* answered 404.
UpdatePaidExpenseExecRowsAffected(fail) ==
    /\ up.pc = "update"
    /\ LET old == SelectPaid(up.id)
           new == { [id |-> p.id, expenseID |-> up.body.expenseID, unitID |-> up.body.unitID,
                     category |-> up.body.category, amount |-> up.body.amount,
                     createdAt |-> p.createdAt] : p \in old }
           req == [id |-> up.id, body |-> up.body]
       IN  IF fail \/ ~FitsNumeric72(up.body.amount)
           THEN /\ paid_expense' = paid_expense
                /\ reply' = [op |-> "UpdatePaidExpense", req |-> req,
                             resp |-> [status |-> 500, text |-> "Database error"]]
           ELSE IF old = {}
           THEN /\ paid_expense' = paid_expense
                /\ reply' = [op |-> "UpdatePaidExpense", req |-> req,
                             resp |-> [status |-> 404, text |-> "Paid expense not found"]]
           ELSE /\ paid_expense' = (paid_expense \ old) \cup new
                /\ reply' = [op |-> "UpdatePaidExpense", req |-> req,
                             resp |-> [status |-> 200, body |-> up.body]]
    /\ up' = [pc |-> "idle"]
    /\ UNCHANGED <<clock, paidSeq, reqVars, budget, otherVars, ev, ev2, ub>>

\* Mutant of UpdatePaidExpenseExec: the UPDATE also sets created_at = NOW().
UpdatePaidExpenseExecTouches(fail) ==
    /\ up.pc = "update"
    /\ LET old == SelectPaid(up.id)
           new == { [id |-> p.id, expenseID |-> up.body.expenseID, unitID |-> up.body.unitID,
                     category |-> up.body.category, amount |-> up.body.amount,
                     createdAt |-> NOW] : p \in old }
           req == [id |-> up.id, body |-> up.body]
       IN  IF fail \/ ~FitsNumeric72(up.body.amount)
           THEN /\ paid_expense' = paid_expense
                /\ reply' = [op |-> "UpdatePaidExpense", req |-> req,
                             resp |-> [status |-> 500, text |-> "Database error"]]
           ELSE /\ paid_expense' = (paid_expense \ old) \cup new
                /\ reply' = [op |-> "UpdatePaidExpense", req |-> req,
                             resp |-> [status |-> 200, body |-> up.body]]
    /\ up' = [pc |-> "idle"]
    /\ UNCHANGED <<clock, paidSeq, reqVars, budget, otherVars, ev, ev2, ub>>

\* UPDATE paid_expense SET expense_id = $1, unit_id = $2, category = $3,
\* amount = $4 WHERE id = $5, then the body is sent back as it came.
UpdatePaidExpenseExec(fail) ==
    /\ up.pc = "update"
    /\ LET old == SelectPaid(up.id)
           new == { [id |-> p.id, expenseID |-> up.body.expenseID, unitID |-> up.body.unitID,
                     category |-> up.body.category, amount |-> up.body.amount,
                     createdAt |-> p.createdAt] : p \in old }
           req == [id |-> up.id, body |-> up.body]
       IN  IF fail \/ ~FitsNumeric72(up.body.amount)
           THEN /\ paid_expense' = paid_expense
                /\ reply' = [op |-> "UpdatePaidExpense", req |-> req,
                             resp |-> [status |-> 500, text |-> "Database error"]]
           ELSE /\ paid_expense' = (paid_expense \ old) \cup new
                /\ reply' = [op |-> "UpdatePaidExpense", req |-> req,
                             resp |-> [status |-> 200, body |-> up.body]]
    /\ up' = [pc |-> "idle"]
    /\ UNCHANGED <<clock, paidSeq, reqVars, budget, otherVars, ev, ev2, ub>>

\* ------------------------------------------------- expense_request CRUD
\* The response of CreateExpenseRequest.
CreateExpenseRequestResp(body, fail) ==
    IF body.malformed THEN [status |-> 400, text |-> "Invalid JSON"]
    ELSE IF fail \/ ~FitsNumeric72(body.amount)
    THEN [status |-> 500, text |-> "Failed to create expense"]
    ELSE [status |-> 201,
          body |-> [id |-> reqSeq + 1, userID |-> body.userID, unitID |-> body.unitID,
                    amount |-> body.amount, category |-> body.category,
                    createdAt |-> NOW, isFinalized |-> body.isFinalized]]

\* INSERT INTO expense_request ... RETURNING id, created_at
CreateExpenseRequest(body, fail) ==
    /\ reqSeq < MaxReqID
    /\ LET resp == CreateExpenseRequestResp(body, fail)
       IN  IF resp.status = 201
           THEN /\ expense_request' = expense_request \cup {resp.body}
                /\ reqSeq' = reqSeq + 1
           ELSE UNCHANGED <<expense_request, reqSeq>>
    /\ UNCHANGED <<clock, paidVars, budget, otherVars, ev, ev2, up, ub>>

\* The response of DeleteExpenseRequest.
DeleteExpenseRequestResp(id, fail) ==
    IF fail THEN [status |-> 500, text |-> "Failed to delete expense request"]
    ELSE IF SelectRequest(id) = {} THEN [status |-> 404, text |-> "Expense request not found"]
    ELSE [status |-> 204]

\* DELETE FROM expense_request WHERE id = $1
DeleteExpenseRequest(id, fail) ==
    /\ expense_request' = IF fail THEN expense_request ELSE expense_request \ SelectRequest(id)
    /\ UNCHANGED <<clock, paidVars, reqSeq, budget, otherVars, ev, ev2, up, ub>>

\* The response of UpdateExpenseRequest for the row id of the path.
UpdateExpenseRequestResp(id, body, fail) ==
    IF body.malformed THEN [status |-> 400, text |-> "Invalid JSON"]
    ELSE IF fail \/ ~FitsNumeric72(body.amount) THEN [status |-> 500, text |-> "Database error"]
    ELSE IF SelectRequest(id) = {} THEN [status |-> 404, text |-> "Expense request not found"]
    ELSE [status |-> 200, body |-> body]

\* UPDATE expense_request SET user_id = $1, unit_id = $2, amount = $3,
\* category = $4, is_finalized = $5 WHERE id = $6
UpdateExpenseRequest(id, body, fail) ==
    /\ expense_request' =
          IF UpdateExpenseRequestResp(id, body, fail).status = 200
          THEN { IF r.id = id
                 THEN [r EXCEPT !.userID = body.userID, !.unitID = body.unitID,
                                !.amount = body.amount, !.category = body.category,
                                !.isFinalized = body.isFinalized]
                 ELSE r : r \in expense_request }
          ELSE expense_request
    /\ UNCHANGED <<clock, paidVars, reqSeq, budget, otherVars, ev, ev2, up, ub>>

\* ----------------------------------------------------------- budget CRUD
\* Mutant of KeyClash: the table is created without its primary key.
KeyClashNone(others, row) == {}

\* PRIMARY KEY (unit_id, expense_category, year): the rows of others whose
\* key is the key of row.
KeyClash(others, row) ==
    { b \in others : b.unitID = row.unitID /\ b.category = row.category /\ b.year = row.year }

BudgetRow(body) ==
    [unitID |-> body.unitID, category |-> body.category, year |-> body.year,
     budgetLimit |-> body.budgetLimit, thresholdRatio |-> body.thresholdRatio]

\* The response of CreateBudget.
CreateBudgetResp(body, fail) ==
    IF body.malformed THEN [status |-> 400, text |-> "Invalid JSON"]
    ELSE IF fail \/ KeyClash(budget, BudgetRow(body)) # {}
    THEN [status |-> 500, text |-> "Failed to create budget"]
    ELSE [status |-> 201, body |-> BudgetRow(body)]

\* INSERT INTO budget ...
CreateBudget(body, fail) ==
    /\ budget' = IF CreateBudgetResp(body, fail).status = 201
                 THEN budget \cup {BudgetRow(body)} ELSE budget
    /\ UNCHANGED <<clock, paidVars, reqVars, otherVars, ev, ev2, up, ub>>

\* The response of DeleteBudget.
DeleteBudgetResp(unitID, category, yearPath, fail) ==
    IF unitID = "" \/ category = "" \/ yearPath = << >>
    THEN [status |-> 400, text |-> "Missing required query parameters: unit_id, category, or year"]
    ELSE IF ~Atoi(yearPath).ok THEN [status |-> 400, text |-> "Invalid year"]
    ELSE IF fail THEN [status |-> 500, text |-> "Failed to delete budget"]
    ELSE IF SelectBudget(unitID, category, Atoi(yearPath).val) = {}
    THEN [status |-> 404, text |-> "Budget record not found"]
    ELSE [status |-> 204]

\* DELETE FROM budget WHERE unit_id = $1 AND expense_category = $2 AND year = $3
DeleteBudget(unitID, category, yearPath, fail) ==
    /\ budget' = IF DeleteBudgetResp(unitID, category, yearPath, fail).status = 204
                 THEN budget \ SelectBudget(unitID, category, Atoi(yearPath).val) ELSE budget
    /\ UNCHANGED <<clock, paidVars, reqVars, otherVars, ev, ev2, up, ub>>

\* ----------------------------------------------------------------- clock
\* Half a day passes.
Tick ==
    /\ clock < MaxTicks
    /\ clock' = clock + 1
    /\ UNCHANGED <<paidVars, reqVars, budget, otherVars, ev, ev2, up, ub, reply>>


\* One UpdateBudget request: Atoi of the path year, the body, the required
\* fields, then the existence check.  It answers, or goes on to the UPDATE.
UpdateBudgetCheck(u, unitID, category, yearPath, body, fail) ==
    /\ ub[u].pc = "idle"
    /\ LET year   == Atoi(yearPath)
           exists == SelectBudget(unitID, category, year.val) # {}
           req    == [unitID |-> unitID, category |-> category, year |-> yearPath, body |-> body]
           answer(resp) == /\ reply' = [op |-> "UpdateBudget", req |-> req, resp |-> resp]
                           /\ UNCHANGED ub
       IN  IF ~year.ok THEN answer([status |-> 400, text |-> "Invalid year"])
           ELSE IF body.malformed THEN answer([status |-> 400, text |-> "Invalid JSON"])
           ELSE IF unitID = "" \/ category = "" \/ year.val = 0
           THEN answer([status |-> 400, text |-> "Missing required fields: unitID, category, or year"])
           ELSE IF fail THEN answer([status |-> 500, text |-> "Database error"])
           ELSE IF ~exists THEN answer([status |-> 404, text |-> "Budget record not found"])
           ELSE /\ ub' = [ub EXCEPT ![u] = [pc |-> "update", unitID |-> unitID, category |-> category,
                                            year |-> year.val, yearPath |-> yearPath, body |-> body]]
                /\ UNCHANGED reply
    /\ UNCHANGED <<clock, paidVars, reqVars, budget, otherVars, ev, ev2, up>>

\* Mutant of UpdateBudgetExec: the UPDATE sets budget_limit and
\* threshold_ratio and leaves the key of the row as it is.
UpdateBudgetExecValuesOnly(u, fail) ==
    /\ ub[u].pc = "update"
    /\ LET old   == SelectBudget(ub[u].unitID, ub[u].category, ub[u].year)
           new   == { [b EXCEPT !.budgetLimit = ub[u].body.budgetLimit,
                                !.thresholdRatio = ub[u].body.thresholdRatio] : b \in old }
           req   == [unitID |-> ub[u].unitID, category |-> ub[u].category,
                     year |-> ub[u].yearPath, body |-> ub[u].body]
       IN  IF fail
           THEN /\ budget' = budget
                /\ reply' = [op |-> "UpdateBudget", req |-> req,
                             resp |-> [status |-> 500, text |-> "Failed to update budget"]]
           ELSE /\ budget' = (budget \ old) \cup new
                /\ reply' = [op |-> "UpdateBudget", req |-> req,
                             resp |-> [status |-> 200, body |-> BudgetRow(ub[u].body)]]
    /\ ub' = [ub EXCEPT ![u] = [pc |-> "idle"]]
    /\ UNCHANGED <<clock, paidVars, reqVars, otherVars, ev, ev2, up>>

\* UPDATE budget SET unit_id = $1, expense_category = $2, year = $3,
\* budget_limit = $4, threshold_ratio = $5
\* WHERE unit_id = $6 AND expense_category = $7 AND year = $8
UpdateBudgetExec(u, fail) ==
    /\ ub[u].pc = "update"
    /\ LET old   == SelectBudget(ub[u].unitID, ub[u].category, ub[u].year)
           new   == { BudgetRow(ub[u].body) : b \in old }
           clash == KeyClash(budget \ old, BudgetRow(ub[u].body)) # {}
           req   == [unitID |-> ub[u].unitID, category |-> ub[u].category,
                     year |-> ub[u].yearPath, body |-> ub[u].body]
       IN  IF fail \/ (old # {} /\ clash)
           THEN /\ budget' = budget
                /\ reply' = [op |-> "UpdateBudget", req |-> req,
                             resp |-> [status |-> 500, text |-> "Failed to update budget"]]
           ELSE /\ budget' = (budget \ old) \cup new
                /\ reply' = [op |-> "UpdateBudget", req |-> req,
                             resp |-> [status |-> 200, body |-> BudgetRow(ub[u].body)]]
    /\ ub' = [ub EXCEPT ![u] = [pc |-> "idle"]]
    /\ UNCHANGED <<clock, paidVars, reqVars, otherVars, ev, ev2, up>>

\* ---------------------------------------------------- the other tables
\* The rows createTablesIfNotExist seeds.
SeedUnit == [name |-> "Executive Management", managerID |-> 0]
SeedUser == [id |-> 1, name |-> "admin", unitID |-> "ExecutiveManagement",
             roleID |-> "admin", password |-> "password"]

\* Mutant of UserCreateTableIfNotExists: the admin user is inserted without
\* the WHERE NOT EXISTS.
UserCreateTableIfNotExistsAlways ==
    users \cup { [SeedUser EXCEPT !.id = userSeq + 1] }

\* User.CreateTableIfNotExists: the users table after it; the admin user
\* is inserted, with the next id, when no user has name admin and role admin.
UserCreateTableIfNotExists ==
    IF \E r \in users : r.name = "admin" /\ r.roleID = "admin"
    THEN users
    ELSE users \cup { [SeedUser EXCEPT !.id = userSeq + 1] }

\* Unit.CreateTableIfNotExists: the unit table after it; the unit is
\* inserted when no unit has its name.
UnitCreateTableIfNotExists ==
    IF \E r \in unit : r.name = "Executive Management"
    THEN unit
    ELSE unit \cup { SeedUnit }

\* createTablesIfNotExist at the start of the server: each creator in turn;
\* those of the other six tables insert nothing.
createTablesIfNotExist ==
    /\ users' = UserCreateTableIfNotExists
    /\ userSeq' = IF users' = users THEN userSeq ELSE userSeq + 1
    /\ unit' = UnitCreateTableIfNotExists
    /\ UNCHANGED <<clock, paidVars, reqVars, budget, expense_category, expense_activity,
                   activitySeq, announcement, announcementSeq, ev, ev2, up, ub>>

UnitBodies == { [malformed |-> FALSE, name |-> "Finance", managerID |-> 1], [malformed |-> TRUE] }
CategoryBodies == { [malformed |-> FALSE, name |-> "x"], [malformed |-> TRUE] }
UserBodies == { [malformed |-> FALSE, name |-> "ann", unitID |-> "Finance", roleID |-> "Manager",
                 password |-> "pw"], [malformed |-> TRUE] }
ActivityBodies == { [malformed |-> FALSE, expenseID |-> 1, currentState |-> "Approved",
                     feedback |-> "ok", createdBy |-> 1], [malformed |-> TRUE] }
\* A currentState of 257 characters.
A16 == "aaaaaaaaaaaaaaaa"
A64 == A16 \o A16 \o A16 \o A16
Overlong == A64 \o A64 \o A64 \o A64 \o "a"
\* The JSON string that decodes to the one character NUL.
NulState == "\\u0000"
\* The constants of type ExpenseState.
ExpenseStates == { "Pending", "Approved", "Rejected", "CategoryChanged", "Payed", "PartiallyPayed" }
\* currentState values of the bodies of expense activities: constants of the
\* type, a string that is none of them, and strings the column rejects.
StateValues == { "Pending", "Approved", "Rejected", "Payed", "Archived", NulState, Overlong }
\* JSON bodies of POST /expense_activities and PUT /expense_activities/{id}
\* for activities of expense 1.
StateBodies ==
    { [malformed |-> FALSE, expenseID |-> 1, currentState |-> st, feedback |-> "", createdBy |-> 1]
        : st \in StateValues } \cup { [malformed |-> TRUE] }
\* current_state VARCHAR(256) NOT NULL: the store takes a text of at most 256
\* characters without a NUL.
FitsVarchar256(st) == Len(st) <= 256 /\ st # NulState
\* JSON bodies of PUT /expense_activities/{id}.
ActivityUpdateBodies == { [malformed |-> FALSE, expenseID |-> 1, currentState |-> "Rejected",
                           feedback |-> "no", createdBy |-> 1], [malformed |-> TRUE] }
AnnouncementBodies == { [malformed |-> FALSE, message |-> "hello", receiverID |-> 1, createdBy |-> 1],
                         [malformed |-> FALSE, message |-> "", receiverID |-> 1, createdBy |-> 1],
                         [malformed |-> TRUE] }

\* The response of CreateUnit: name is the primary key.
CreateUnitResp(body, fail) ==
    IF body.malformed THEN [status |-> 400, text |-> "Invalid JSON in request body"]
    ELSE IF fail \/ \E r \in unit : r.name = body.name
    THEN [status |-> 500, text |-> "Failed to create unit"]
    ELSE [status |-> 200, body |-> [name |-> body.name, managerID |-> body.managerID]]

\* INSERT INTO unit (name, manager_id)
CreateUnit(body, fail) ==
    /\ unit' = IF CreateUnitResp(body, fail).status = 200
               THEN unit \cup {CreateUnitResp(body, fail).body} ELSE unit
    /\ UNCHANGED <<clock, paidVars, reqVars, budget, users, userSeq, expense_category,
                   expense_activity, activitySeq, announcement, announcementSeq, ev, ev2, up, ub>>

\* The response of CreateExpenseCategory: name is the primary key.
CreateExpenseCategoryResp(body, fail) ==
    IF body.malformed THEN [status |-> 400, text |-> "Invalid JSON"]
    ELSE IF fail \/ \E r \in expense_category : r.name = body.name
    THEN [status |-> 500, text |-> "Failed to create expense"]
    ELSE [status |-> 201, body |-> [name |-> body.name]]

\* INSERT INTO expense_category (name)
CreateExpenseCategory(body, fail) ==
    /\ expense_category' = IF CreateExpenseCategoryResp(body, fail).status = 201
                           THEN expense_category \cup {CreateExpenseCategoryResp(body, fail).body}
                           ELSE expense_category
    /\ UNCHANGED <<clock, paidVars, reqVars, budget, users, userSeq, unit,
                   expense_activity, activitySeq, announcement, announcementSeq, ev, ev2, up, ub>>

\* The response of CreateUser.
CreateUserResp(body, fail) ==
    IF body.malformed THEN [status |-> 400, text |-> "Invalid JSON"]
    ELSE IF fail THEN [status |-> 500, text |-> "Failed to create user"]
    ELSE [status |-> 201,
          body |-> [id |-> userSeq + 1, name |-> body.name, unitID |-> body.unitID,
                    roleID |-> body.roleID, password |-> body.password]]

\* INSERT INTO users ... RETURNING id
CreateUser(body, fail) ==
    /\ userSeq < SeedUser.id + MaxOtherID
    /\ LET resp == CreateUserResp(body, fail)
       IN  IF resp.status = 201
           THEN users' = users \cup {resp.body} /\ userSeq' = userSeq + 1
           ELSE UNCHANGED <<users, userSeq>>
    /\ UNCHANGED <<clock, paidVars, reqVars, budget, unit, expense_category,
                   expense_activity, activitySeq, announcement, announcementSeq, ev, ev2, up, ub>>

\* Mutant of CreateExpenseActivityResp: a currentState that is no constant of
\* ExpenseState is refused.
CreateExpenseActivityRespValidated(body, fail) ==
    IF body.malformed THEN [status |-> 400, text |-> "Invalid JSON payload"]
    ELSE IF body.currentState \notin ExpenseStates THEN [status |-> 400, text |-> "Invalid state"]
    ELSE IF fail \/ ~FitsVarchar256(body.currentState)
    THEN [status |-> 500, text |-> "Could not create expense activity"]
    ELSE [status |-> 201,
          body |-> [id |-> activitySeq + 1, expenseID |-> body.expenseID,
                    currentState |-> body.currentState, feedback |-> body.feedback,
                    createdBy |-> body.createdBy, createdAt |-> NOW]]

\* The response of CreateExpenseActivity.
CreateExpenseActivityResp(body, fail) ==
    IF body.malformed THEN [status |-> 400, text |-> "Invalid JSON payload"]
    ELSE IF fail \/ ~FitsVarchar256(body.currentState)
    THEN [status |-> 500, text |-> "Could not create expense activity"]
    ELSE [status |-> 201,
          body |-> [id |-> activitySeq + 1, expenseID |-> body.expenseID,
                    currentState |-> body.currentState, feedback |-> body.feedback,
                    createdBy |-> body.createdBy, createdAt |-> NOW]]

\* INSERT INTO expense_activity ... RETURNING id, created_at
CreateExpenseActivity(body, fail) ==
    /\ activitySeq < MaxActivityID
    /\ LET resp == CreateExpenseActivityResp(body, fail)
       IN  IF resp.status = 201
           THEN expense_activity' = expense_activity \cup {resp.body} /\ activitySeq' = activitySeq + 1
           ELSE UNCHANGED <<expense_activity, activitySeq>>
    /\ UNCHANGED <<clock, paidVars, reqVars, budget, users, userSeq, unit, expense_category,
                   announcement, announcementSeq, ev, ev2, up, ub>>

\* The response of UpdateExpenseActivity for the row id of the path: the
\* body as it came, whether or not a row has the id.
UpdateExpenseActivityResp(id, body, fail) ==
    IF body.malformed THEN [status |-> 400, text |-> "Invalid JSON"]
    ELSE IF fail \/ ~FitsVarchar256(body.currentState)
    THEN [status |-> 500, text |-> "Failed to update expense activity"]
    ELSE [status |-> 200, body |-> body]

\* UPDATE expense_activity SET expense_id = $1, current_state = $2,
\* feedback = $3, created_by = $4 WHERE id = $5
UpdateExpenseActivity(id, body, fail) ==
    /\ expense_activity' =
          IF UpdateExpenseActivityResp(id, body, fail).status = 200
          THEN { IF a.id = id
                 THEN [a EXCEPT !.expenseID = body.expenseID, !.currentState = body.currentState,
                                !.feedback = body.feedback, !.createdBy = body.createdBy]
                 ELSE a : a \in expense_activity }
          ELSE expense_activity
    /\ UNCHANGED <<clock, paidVars, reqVars, budget, users, userSeq, unit, expense_category,
                   activitySeq, announcement, announcementSeq, ev, ev2, up, ub>>

\* The response of CreateAnnouncement.
CreateAnnouncementResp(body, fail) ==
    IF body.malformed THEN [status |-> 400, text |-> "Invalid JSON"]
    ELSE IF body.message = "" \/ body.createdBy = 0
    THEN [status |-> 400, text |-> "Missing required fields"]
    ELSE IF fail THEN [status |-> 500, text |-> "Database insert failed"]
    ELSE [status |-> 200,
          body |-> [id |-> announcementSeq + 1, message |-> body.message,
                    receiverID |-> body.receiverID, createdBy |-> body.createdBy, createdAt |-> NOW]]

\* INSERT INTO announcement ... RETURNING id, created_at
CreateAnnouncement(body, fail) ==
    /\ announcementSeq < MaxOtherID
    /\ LET resp == CreateAnnouncementResp(body, fail)
       IN  IF resp.status = 200
           THEN announcement' = announcement \cup {resp.body} /\ announcementSeq' = announcementSeq + 1
           ELSE UNCHANGED <<announcement, announcementSeq>>
    /\ UNCHANGED <<clock, paidVars, reqVars, budget, users, userSeq, unit, expense_category,
                   expense_activity, activitySeq, ev, ev2, up, ub>>

\* --------------------------------------------------------- specification
\* The store after createTablesIfNotExist on an empty database, no request
\* in flight.
Init ==
    /\ clock = 0
    /\ paid_expense = {} /\ paidSeq = 0
    /\ expense_request = {} /\ reqSeq = 0
    /\ budget = {}
    /\ users = {SeedUser} /\ userSeq = SeedUser.id
    /\ unit = {SeedUnit}
    /\ expense_category = {}
    /\ expense_activity = {} /\ activitySeq = 0
    /\ announcement = {} /\ announcementSeq = 0
    /\ ev = [pc |-> "idle"]
    /\ ev2 = [pc |-> "idle"]
    /\ up = [pc |-> "idle"]
    /\ ub = [u \in 1..MaxUpdaters |-> [pc |-> "idle"]]
    /\ reply = [op |-> "none"]

\* An empty database, before the server has ever started.
InitBlank ==
    /\ clock = 0
    /\ paid_expense = {} /\ paidSeq = 0
    /\ expense_request = {} /\ reqSeq = 0
    /\ budget = {}
    /\ users = {} /\ userSeq = 0
    /\ unit = {}
    /\ expense_category = {}
    /\ expense_activity = {} /\ activitySeq = 0
    /\ announcement = {} /\ announcementSeq = 0
    /\ ev = [pc |-> "idle"]
    /\ ev2 = [pc |-> "idle"]
    /\ up = [pc |-> "idle"]
    /\ ub = [u \in 1..MaxUpdaters |-> [pc |-> "idle"]]
    /\ reply = [op |-> "none"]

\* The server starts on an empty database, serves requests that insert
\* into the tables, and is restarted; reply holds the last event, a start
\* with the number of starts in a row.
NextStartup ==
    \/ /\ IF reply.op = "createTablesIfNotExist" THEN reply.n < MaxRestarts ELSE TRUE
       /\ createTablesIfNotExist
       /\ reply' = [op |-> "createTablesIfNotExist",
                    n |-> IF reply.op = "createTablesIfNotExist" THEN reply.n + 1 ELSE 1]
    \/ /\ reply.op # "none"
       /\ \/ \E body \in UnitBodies, fail \in BOOLEAN :
                /\ CreateUnit(body, fail)
                /\ reply' = [op |-> "CreateUnit", resp |-> CreateUnitResp(body, fail)]
          \/ \E body \in UserBodies, fail \in BOOLEAN :
                /\ CreateUser(body, fail)
                /\ reply' = [op |-> "CreateUser", resp |-> CreateUserResp(body, fail)]
          \/ \E body \in CategoryBodies, fail \in BOOLEAN :
                /\ CreateExpenseCategory(body, fail)
                /\ reply' = [op |-> "CreateExpenseCategory",
                             resp |-> CreateExpenseCategoryResp(body, fail)]
          \/ \E body \in AnnouncementBodies, fail \in BOOLEAN :
                /\ CreateAnnouncement(body, fail)
                /\ reply' = [op |-> "CreateAnnouncement",
                             resp |-> CreateAnnouncementResp(body, fail)]

SpecStartup == InitBlank /\ [][NextStartup]_vars

\* PayExpense among the requests that write the three tables it reads, as
\* the clock advances.  The responses of the writers are not recorded.
Next ==
    \/ \E path \in PayPaths, fail \in BOOLEAN : PayFetchPaid(path, fail)
    \/ \E fail \in BOOLEAN : PayFetchRequest(fail)
    \/ \E fail \in BOOLEAN : PayFetchBudget(fail)
    \/ \E fail \in BOOLEAN : PaySumSpent(fail)
    \/ \E body \in PaidBodies, fail \in BOOLEAN :
          CreatePaidExpense(body, fail) /\ UNCHANGED reply
    \/ \E id \in 1..MaxPaidID, fail \in BOOLEAN :
          DeletePaidExpense(id, fail) /\ UNCHANGED reply
    \/ \E body \in RequestBodies, fail \in BOOLEAN :
          CreateExpenseRequest(body, fail) /\ UNCHANGED reply
    \/ \E id \in 1..MaxReqID, fail \in BOOLEAN :
          DeleteExpenseRequest(id, fail) /\ UNCHANGED reply
    \/ \E body \in BudgetBodies, fail \in BOOLEAN :
          CreateBudget(body, fail) /\ UNCHANGED reply
    \/ \E u \in BudgetUnits, c \in BudgetCategories, y \in YearPaths, fail \in BOOLEAN :
          DeleteBudget(u, c, y, fail) /\ UNCHANGED reply
    \/ Tick

Spec == Init /\ [][Next]_vars

\* The budget handlers alone, each response recorded; the two statements of
\* an UpdateBudget interleave with the statements of the other requests.
NextBudget ==
    \/ \E body \in BudgetBodies, fail \in BOOLEAN :
          /\ CreateBudget(body, fail)
          /\ reply' = [op |-> "CreateBudget", req |-> body, resp |-> CreateBudgetResp(body, fail)]
    \/ \E u \in BudgetUnits, c \in BudgetCategories, y \in YearPaths, fail \in BOOLEAN :
          /\ DeleteBudget(u, c, y, fail)
          /\ reply' = [op |-> "DeleteBudget", req |-> [unitID |-> u, category |-> c, year |-> y],
                       resp |-> DeleteBudgetResp(u, c, y, fail)]
    \/ \E n \in 1..MaxUpdaters, u \in BudgetUnits, c \in BudgetCategories, y \in YearPaths,
          body \in BudgetBodies, fail \in BOOLEAN :
          UpdateBudgetCheck(n, u, c, y, body, fail)
    \/ \E n \in 1..MaxUpdaters, fail \in BOOLEAN : UpdateBudgetExec(n, fail)

SpecBudget == Init /\ [][NextBudget]_vars

\* PayExpense among requests that insert into each of the eight tables.
NextFrame ==
    \/ \E path \in PayPaths, fail \in BOOLEAN : PayFetchPaid(path, fail)
    \/ \E fail \in BOOLEAN : PayFetchRequest(fail)
    \/ \E fail \in BOOLEAN : PayFetchBudget(fail)
    \/ \E fail \in BOOLEAN : PaySumSpent(fail)
    \/ \E body \in PaidBodies, fail \in BOOLEAN :
          body.malformed = FALSE /\ body.unitID = "A" /\ body.category = "x"
          /\ CreatePaidExpense(body, fail) /\ UNCHANGED reply
    \/ \E body \in RequestBodies, fail \in BOOLEAN :
          CreateExpenseRequest(body, fail) /\ UNCHANGED reply
    \/ \E body \in BudgetBodies, fail \in BOOLEAN :
          body.malformed = FALSE /\ body.year = 2024
          /\ CreateBudget(body, fail) /\ UNCHANGED reply
    \/ \E body \in UnitBodies, fail \in BOOLEAN : CreateUnit(body, fail) /\ UNCHANGED reply
    \/ \E body \in CategoryBodies, fail \in BOOLEAN :
          CreateExpenseCategory(body, fail) /\ UNCHANGED reply
    \/ \E body \in UserBodies, fail \in BOOLEAN : CreateUser(body, fail) /\ UNCHANGED reply
    \/ \E body \in ActivityBodies, fail \in BOOLEAN :
          CreateExpenseActivity(body, fail) /\ UNCHANGED reply
    \/ \E body \in AnnouncementBodies, fail \in BOOLEAN :
          CreateAnnouncement(body, fail) /\ UNCHANGED reply

SpecFrame == Init /\ [][NextFrame]_vars

\* The paid_expense handlers alone, each response recorded, as the clock
\* advances; the two statements of an UpdatePaidExpense interleave with the
\* other requests.
NextPaid ==
    \/ \E body \in PaidFullBodies, fail \in BOOLEAN :
          /\ CreatePaidExpense(body, fail)
          /\ reply' = [op |-> "CreatePaidExpense", req |-> body,
                       resp |-> CreatePaidExpenseResp(body, fail)]
    \/ \E id \in 1..MaxPaidID, body \in PaidFullBodies, fail \in BOOLEAN :
          UpdatePaidExpenseCheck(id, body, fail)
    \/ \E fail \in BOOLEAN : UpdatePaidExpenseExec(fail)
    \/ \E id \in 1..MaxPaidID, fail \in BOOLEAN :
          /\ DeletePaidExpense(id, fail)
          /\ reply' = [op |-> "DeletePaidExpense", req |-> [id |-> id],
                       resp |-> DeletePaidExpenseResp(id, fail)]
    \/ Tick

SpecPaid == Init /\ [][NextPaid]_vars

\* Two PayExpense requests served concurrently while payments of one unit
\* and category are recorded and deleted.
NextPair ==
    \/ \E path \in PayPaths, fail \in BOOLEAN : PayFetchPaid(path, fail)
    \/ \E fail \in BOOLEAN : PayFetchRequest(fail)
    \/ \E fail \in BOOLEAN : PayFetchBudget(fail)
    \/ \E fail \in BOOLEAN : PaySumSpent(fail)
    \/ \E path \in PayPaths, fail \in BOOLEAN : Pay2FetchPaid(path, fail)
    \/ \E fail \in BOOLEAN : Pay2FetchRequest(fail)
    \/ \E fail \in BOOLEAN : Pay2FetchBudget(fail)
    \/ \E fail \in BOOLEAN : Pay2SumSpent(fail)
    \/ \E body \in PairBodies, fail \in BOOLEAN :
          CreatePaidExpense(body, fail) /\ UNCHANGED reply
    \/ \E id \in 1..MaxPaidID, fail \in BOOLEAN :
          DeletePaidExpense(id, fail) /\ UNCHANGED reply
    \/ \E body \in RequestBodies, fail \in BOOLEAN :
          CreateExpenseRequest(body, fail) /\ UNCHANGED reply
    \/ \E body \in BudgetBodies, fail \in BOOLEAN :
          body.malformed = FALSE /\ body.year = 2024
          /\ CreateBudget(body, fail) /\ UNCHANGED reply

SpecPair == Init /\ [][NextPair]_vars

\* PayExpense among the requests that write the three tables it reads and
\* the requests that write expense activities and update expense requests.
NextIndep ==
    \/ \E path \in PayPaths, fail \in BOOLEAN : PayFetchPaid(path, fail)
    \/ \E fail \in BOOLEAN : PayFetchRequest(fail)
    \/ \E fail \in BOOLEAN : PayFetchBudget(fail)
    \/ \E fail \in BOOLEAN : PaySumSpent(fail)
    \/ \E body \in PaidBodies, fail \in BOOLEAN :
          body.malformed = FALSE /\ body.unitID = "A" /\ body.category = "x"
          /\ CreatePaidExpense(body, fail) /\ UNCHANGED reply
    \/ \E body \in RequestBodies, fail \in BOOLEAN :
          CreateExpenseRequest(body, fail) /\ UNCHANGED reply
    \/ \E id \in 1..MaxReqID, body \in RequestUpdateBodies, fail \in BOOLEAN :
          UpdateExpenseRequest(id, body, fail) /\ UNCHANGED reply
    \/ \E body \in BudgetBodies, fail \in BOOLEAN :
          body.malformed = FALSE /\ body.year = 2024
          /\ CreateBudget(body, fail) /\ UNCHANGED reply
    \/ \E body \in ActivityBodies, fail \in BOOLEAN :
          CreateExpenseActivity(body, fail) /\ UNCHANGED reply
    \/ \E id \in 1..MaxActivityID, body \in ActivityUpdateBodies, fail \in BOOLEAN :
          UpdateExpenseActivity(id, body, fail) /\ UNCHANGED reply

SpecIndep == Init /\ [][NextIndep]_vars

\* PayExpense while payments of one unit and category are recorded against
\* a budget with a narrow or a wide threshold.
NextOver ==
    \/ \E path \in PayPaths, fail \in BOOLEAN : PayFetchPaid(path, fail)
    \/ \E fail \in BOOLEAN : PayFetchRequest(fail)
    \/ \E fail \in BOOLEAN : PayFetchBudget(fail)
    \/ \E fail \in BOOLEAN : PaySumSpent(fail)
    \/ \E body \in PairBodies, fail \in BOOLEAN :
          CreatePaidExpense(body, fail) /\ UNCHANGED reply
    \/ \E body \in RequestBodies, fail \in BOOLEAN :
          CreateExpenseRequest(body, fail) /\ UNCHANGED reply
    \/ \E body \in ThresholdBodies, fail \in BOOLEAN :
          CreateBudget(body, fail) /\ UNCHANGED reply

SpecOver == Init /\ [][NextOver]_vars

\* PayExpense while payments of positive and negative amounts are recorded
\* and rewritten, the responses of the writes recorded.
NextSigned ==
    \/ \E path \in PayPaths, fail \in BOOLEAN : PayFetchPaid(path, fail)
    \/ \E fail \in BOOLEAN : PayFetchRequest(fail)
    \/ \E fail \in BOOLEAN : PayFetchBudget(fail)
    \/ \E fail \in BOOLEAN : PaySumSpent(fail)
    \/ \E body \in SignedBodies, fail \in BOOLEAN :
          /\ CreatePaidExpense(body, fail)
          /\ reply' = [op |-> "CreatePaidExpense", req |-> body, fail |-> fail,
                       resp |-> CreatePaidExpenseResp(body, fail)]
    \/ \E id \in 1..MaxPaidID, body \in SignedBodies, fail \in BOOLEAN :
          UpdatePaidExpenseCheck(id, body, fail)
    \/ \E fail \in BOOLEAN : UpdatePaidExpenseExec(fail)
    \/ \E body \in RequestBodies, fail \in BOOLEAN :
          CreateExpenseRequest(body, fail) /\ UNCHANGED reply
    \/ \E body \in BudgetBodies, fail \in BOOLEAN :
          body.malformed = FALSE /\ body.year = 2024
          /\ CreateBudget(body, fail) /\ UNCHANGED reply

SpecSigned == Init /\ [][NextSigned]_vars

\* Payments are recorded as the clock advances and listed with every
\* combination of filters; one list request is observed in a behaviour.
NextList ==
    \/ \E body \in PaidBodies, fail \in BOOLEAN :
          CreatePaidExpense(body, fail) /\ UNCHANGED reply
    \/ \E q \in ListQueries, fail \in BOOLEAN :
          reply.op = "none" /\ ListPaidExpenses(q, fail)
    \/ Tick

SpecList == Init /\ [][NextList]_vars

\* Expense requests and expense activities are created and updated, the
\* responses of the updates recorded.
NextUpdate ==
    \/ \E body \in RequestBodies, fail \in BOOLEAN :
          CreateExpenseRequest(body, fail) /\ UNCHANGED reply
    \/ \E id \in 1..MaxReqID + 1, body \in RequestUpdateBodies, fail \in BOOLEAN :
          /\ UpdateExpenseRequest(id, body, fail)
          /\ reply' = [op |-> "UpdateExpenseRequest", req |-> [id |-> id, body |-> body],
                       fail |-> fail, resp |-> UpdateExpenseRequestResp(id, body, fail)]
    \/ \E body \in ActivityBodies, fail \in BOOLEAN :
          CreateExpenseActivity(body, fail) /\ UNCHANGED reply
    \/ \E id \in 1..MaxActivityID + 1, body \in ActivityUpdateBodies, fail \in BOOLEAN :
          /\ UpdateExpenseActivity(id, body, fail)
          /\ reply' = [op |-> "UpdateExpenseActivity", req |-> [id |-> id, body |-> body],
                       fail |-> fail, resp |-> UpdateExpenseActivityResp(id, body, fail)]
    \/ Tick

SpecUpdate == Init /\ [][NextUpdate]_vars

\* The requests that write expense activities, each response recorded.
NextActivity ==
    \/ \E body \in StateBodies, fail \in BOOLEAN :
          /\ CreateExpenseActivity(body, fail)
          /\ reply' = [op |-> "CreateExpenseActivity", req |-> body, fail |-> fail,
                       resp |-> CreateExpenseActivityResp(body, fail)]
    \/ \E id \in 1..MaxActivityID, body \in StateBodies, fail \in BOOLEAN :
          /\ UpdateExpenseActivity(id, body, fail)
          /\ reply' = [op |-> "UpdateExpenseActivity", req |-> [id |-> id, body |-> body],
                       fail |-> fail, resp |-> UpdateExpenseActivityResp(id, body, fail)]

SpecActivity == Init /\ [][NextActivity]_vars

\* Requests fill the store, then PayExpense requests for one and the same
\* id are served, one after the other or two at a time: no request writes
\* once the first evaluation has started.
NextRepeat ==
    \/ \E path \in PayPaths, fail \in BOOLEAN :
          (IF ev2.pc = "idle" THEN TRUE ELSE path = ev2.path) /\ PayFetchPaid(path, fail)
    \/ \E fail \in BOOLEAN : PayFetchRequest(fail)
    \/ \E fail \in BOOLEAN : PayFetchBudget(fail)
    \/ \E fail \in BOOLEAN : PaySumSpent(fail)
    \/ \E path \in PayPaths, fail \in BOOLEAN :
          (IF ev.pc = "idle" THEN TRUE ELSE path = ev.path) /\ Pay2FetchPaid(path, fail)
    \/ \E fail \in BOOLEAN : Pay2FetchRequest(fail)
    \/ \E fail \in BOOLEAN : Pay2FetchBudget(fail)
    \/ \E fail \in BOOLEAN : Pay2SumSpent(fail)
    \/ /\ ev.pc = "idle" /\ ev2.pc = "idle"
       /\ \/ \E body \in PaidBodies, fail \in BOOLEAN :
                CreatePaidExpense(body, fail) /\ UNCHANGED reply
          \/ \E body \in RequestBodies, fail \in BOOLEAN :
                CreateExpenseRequest(body, fail) /\ UNCHANGED reply
          \/ \E body \in BudgetBodies, fail \in BOOLEAN :
                CreateBudget(body, fail) /\ UNCHANGED reply
          \/ Tick

SpecRepeat == Init /\ [][NextRepeat]_vars

\* ================================================================ claims
\* The row of expense_request that a payment row links to, if any.
LinkedRequests(paid) == { r \in expense_request : r.id = paid.expenseID }

\* The rows of budget with the key (unit, category, year).
BudgetsAt(unitID, category, year) ==
    { b \in budget : b.unitID = unitID /\ b.category = category /\ b.year = year }

\* The amount of the paid_expense row with this id when it is a row of
\* (unit, category) created in year, else 0.
MatchingAmount(id, unitID, category, year) ==
    LET rows == { p \in paid_expense : /\ p.id = id
                                       /\ p.unitID = unitID
                                       /\ p.category = category
                                       /\ p.createdAt.year = year }
    IN  IF rows = {} THEN 0 ELSE (CHOOSE p \in rows : TRUE).amount

RECURSIVE SumOverIds(_, _, _, _)
\* The sum of MatchingAmount over the ids 1..n.
SumOverIds(n, unitID, category, year) ==
    IF n = 0 THEN 0
    ELSE MatchingAmount(n, unitID, category, year) + SumOverIds(n - 1, unitID, category, year)

\* The statement of PayExpense that reads the linked request found it and
\* took the year of its creation timestamp.
YearReadFromRequest ==
    (ev.pc = "fetchRequest" /\ ev'.pc = "fetchBudget")
        => \E r \in LinkedRequests(ev.paid) : ev'.year = r.createdAt.year

\* The statement of PayExpense that reads the budget found the stored row
\* of (payment unit, payment category, year).
BudgetReadAtKey ==
    (ev.pc = "fetchBudget" /\ ev'.pc = "sumSpent")
        => ev'.budget \in BudgetsAt(ev.paid.unitID, ev.paid.category, ev.year)

\* C1: a PayExpense whose linked request and whose budget are stored when it
\* reads them succeeds (no read failing in the store), and its result has
\* rest = limit - spent and budgetMax = limit + threshold * limit for the
\* limit and threshold of the stored budget row.
C1_CompleteChainSucceeds ==
    [][ /\ (ev.pc = "fetchRequest" /\ ev'.pc = "done" /\ LinkedRequests(ev.paid) # {})
              => ev'.err = "StoreFailure"
        /\ (ev.pc = "fetchBudget" /\ ev'.pc = "done"
              /\ BudgetsAt(ev.paid.unitID, ev.paid.category, ev.year) # {})
              => ev'.err = "StoreFailure"
        /\ BudgetReadAtKey
        /\ (ev.pc = "sumSpent" /\ ev'.pc = "done" /\ ev'.err # "StoreFailure")
              => /\ ev'.status = 200
                 /\ ev'.body.budget.rest = ev.budget.budgetLimit - ev'.body.budget.spent
                 /\ 100 * ev'.body.budget.budgetMax =
                       100 * ev.budget.budgetLimit
                       + ev.budget.thresholdRatio * ev.budget.budgetLimit
      ]_vars

\* C1 witness: limit 1000.00, threshold 0.10 and nothing spent give rest
\* 1000.00 and budgetMax 1100.00.
C1_Witness ==
    /\ ev.pc = "done" /\ ev.status = 200
    /\ ev.body.budget.limit = 100000 /\ ev.body.budget.threshold = 10
    /\ ev.body.budget.spent = 0
    /\ ev.body.budget.rest = 100000 /\ ev.body.budget.budgetMax = 110000

\* C2: in a successful PayExpense, spent is the sum of amount over the
\* stored paid_expense rows with the unit and category of the evaluated
\* payment and created in year, the creation year of the linked request;
\* 0 when none matches.
C2_SpentIsSumOfMatchingRows ==
    [][ /\ YearReadFromRequest
        /\ (ev.pc = "sumSpent" /\ ev'.pc = "done" /\ ev'.status = 200)
              => ev'.body.budget.spent =
                    SumOverIds(paidSeq, ev.paid.unitID, ev.paid.category, ev.year)
      ]_vars

\* C2 witness: two stored rows, one of them of another unit or category,
\* and a spent that counts only the matching one.
C2_Witness ==
    /\ ev.pc = "done" /\ ev.status = 200
    /\ ev.body.budget.spent = 120000
    /\ \E p, q \in paid_expense :
          /\ p.unitID = "A" /\ p.category = "x" /\ p.createdAt.year = ev.body.budget.year
          /\ q.createdAt.year = ev.body.budget.year
          /\ (q.unitID # "A" \/ q.category # "x")

\* C3: the budget is looked up with the key (payment unit, payment
\* category, creation year of the linked request), not the creation year of
\* the payment.
C3_BudgetKeyUsesRequestYear ==
    [][ /\ YearReadFromRequest
        /\ BudgetReadAtKey
        /\ (ev.pc = "fetchBudget" /\ ev'.pc = "done" /\ ev'.err = "ErrNoRows")
              => BudgetsAt(ev.paid.unitID, ev.paid.category, ev.year) = {}
        /\ (ev.pc = "sumSpent" /\ ev'.pc = "done" /\ ev'.status = 200)
              => ev'.body.budget.year = ev.year
      ]_vars

\* C3 witness: a success for a payment made in 2025 on a request of 2024,
\* answered from the budget of 2024.
C3_Witness ==
    /\ ev.pc = "done" /\ ev.status = 200
    /\ ev.body.paidExpense.createdAt.year = 2025
    /\ ev.body.budget.year = 2024

\* C4: PayExpense on an id with no paid_expense row answers 404 with an
\* error text and no result, whatever expense_request and budget hold.
C4_MissingPaymentIs404 ==
    [][ (/\ ev.pc \in {"idle", "done"} /\ ev' # ev
         /\ Atoi(ev'.path).ok
         /\ ~ \E p \in paid_expense : p.id = Atoi(ev'.path).val)
            => /\ ev'.pc = "done" /\ ev'.status = 404
               /\ ev'.body = [text |-> "Paid expense not found"]
      ]_vars

\* C4 witness: a 404 for id 2, which no payment has, while another payment,
\* a request and a budget are stored.
C4_Witness ==
    /\ ev.pc = "done" /\ ev.status = 404 /\ ev.err = "ErrNoRows" /\ ev.path = <<"2">>
    /\ expense_request # {} /\ budget # {} /\ paid_expense # {}
    /\ \A p \in paid_expense : p.id # 2

\* C5: PayExpense on a stored payment whose expenseID names no stored
\* request answers 500, not 404, with an error text and no result.
C5_MissingRequestIs500 ==
    [][ (ev.pc = "fetchRequest" /\ ev' # ev /\ LinkedRequests(ev.paid) = {})
            => /\ ev'.pc = "done" /\ ev'.status = 500
               /\ ev'.body = [text |-> "Related expense request not found"]
      ]_vars

\* C5 witness: the request was created, then deleted by DeleteExpenseRequest,
\* and the evaluation of its payment answered 500.
C5_Witness ==
    /\ ev.pc = "done" /\ ev.status = 500 /\ ev.err = "ErrNoRows"
    /\ ev.body = [text |-> "Related expense request not found"]
    /\ reqSeq = 1 /\ expense_request = {}
    /\ \E p \in paid_expense : p.id = Atoi(ev.path).val /\ p.expenseID = 1

\* C6: PayExpense on a stored payment whose linked request is stored but
\* whose (payment unit, payment category, request year) has no budget row
\* answers 500, not 404, with an error text and no result.
C6_MissingBudgetIs500 ==
    [][ (ev.pc = "fetchBudget" /\ ev' # ev
         /\ BudgetsAt(ev.paid.unitID, ev.paid.category, ev.year) = {})
            => /\ ev'.pc = "done" /\ ev'.status = 500
               /\ ev'.body = [text |-> "Budget not found"]
      ]_vars

\* C6 witness: payment and request are stored, a budget exists for another
\* year only, and the evaluation answered 500.
C6_Witness ==
    /\ ev.pc = "done" /\ ev.status = 500 /\ ev.err = "ErrNoRows"
    /\ ev.body = [text |-> "Budget not found"]
    /\ \E p \in paid_expense, r \in expense_request :
          /\ p.id = Atoi(ev.path).val /\ r.id = p.expenseID
          /\ BudgetsAt(p.unitID, p.category, r.createdAt.year) = {}
          /\ \E b \in budget : b.unitID = p.unitID /\ b.category = p.category

\* C7: the status is 400 only for a malformed identifier, 404 only when the
\* payment does not exist, and 500 for a missing request, a missing budget
\* or a store failure at any of the four reads.
C7_StatusCodes ==
    ev.pc = "done" =>
        /\ ev.status \in {200, 400, 404, 500}
        /\ ev.status = 400 <=> ev.err = "Atoi"
        /\ ev.status = 404 <=> (ev.err = "ErrNoRows" /\ ev.body = [text |-> "Paid expense not found"])
        /\ ev.err = "StoreFailure" => ev.status = 500
        /\ (ev.err = "ErrNoRows" /\ ev.body # [text |-> "Paid expense not found"]) => ev.status = 500

\* C8: no statement of PayExpense writes: whatever the outcome and whatever
\* the other requests do in between, the step that executes it leaves the
\* eight tables as they are.
C8_PayExpenseNeverWrites == [][ev' # ev => UNCHANGED tables]_vars

\* C8 witness: an evaluation has succeeded in a store where requests have
\* inserted into each of the eight tables.
C8_Witness ==
    /\ ev.pc = "done" /\ ev.status = 200
    /\ Cardinality(users) = 2 /\ Cardinality(unit) = 2
    /\ expense_category # {} /\ expense_activity # {} /\ announcement # {}
    /\ Cardinality(paid_expense) = 2 /\ expense_request # {} /\ budget # {}

\* The response of a finished PayExpense is the full result or one error
\* text, never both.
OneOutcome ==
    ev.pc = "done" =>
        \/ ev.status = 200 /\ DOMAIN ev.body = {"paidExpense", "budget"}
        \/ ev.status \in {400, 404, 500} /\ DOMAIN ev.body = {"text"}

\* The statements run in the order payment, linked request, budget, sum,
\* and a statement that fails answers with its own error and ends the
\* request; with the linked request missing, the answer is the missing
\* request, also when no budget of the payment's unit and category exists.
FirstUnmetStep ==
    /\ ev' # ev =>
          \/ ev.pc \in {"idle", "done"} /\ ev'.pc \in {"fetchRequest", "done"}
          \/ ev.pc = "fetchRequest" /\ ev'.pc \in {"fetchBudget", "done"}
          \/ ev.pc = "fetchBudget" /\ ev'.pc \in {"sumSpent", "done"}
          \/ ev.pc = "sumSpent" /\ ev'.pc = "done"
    /\ (ev' # ev /\ ev'.pc = "done" /\ ev'.status # 200) =>
          ev'.body.text =
             CASE ev.pc = "fetchRequest" -> "Related expense request not found"
               [] ev.pc = "fetchBudget"  -> "Budget not found"
               [] ev.pc = "sumSpent"     -> "Failed to calculate spent amount"
               [] OTHER -> IF ev'.status = 400 THEN "Invalid ID" ELSE "Paid expense not found"
    /\ (ev.pc = "fetchRequest" /\ ev' # ev /\ LinkedRequests(ev.paid) = {})
          => ev'.pc = "done" /\ ev'.body = [text |-> "Related expense request not found"]
    /\ (ev.pc = "fetchBudget" /\ ev' # ev
          /\ BudgetsAt(ev.paid.unitID, ev.paid.category, ev.year) = {})
          => ev'.pc = "done" /\ ev'.body = [text |-> "Budget not found"]

\* C9: each PayExpense request ends with one outcome, the full result or a
\* single failure, the failure being that of the first unmet step in the
\* order payment, linked request, budget, sum; no budget numbers come with a
\* failure.
C9_OneOutcomeFirstUnmetStep == []OneOutcome /\ [][FirstUnmetStep]_vars

\* C9 witness: linked request and budget are both missing, and the answer
\* is the missing request.
C9_Witness ==
    /\ ev.pc = "done" /\ ev.err = "ErrNoRows"
    /\ ev.body = [text |-> "Related expense request not found"]
    /\ expense_request = {} /\ budget = {}
    /\ \E p \in paid_expense : p.id = Atoi(ev.path).val

\* At most one budget row per (unit, category, year).
BudgetKeyUnique ==
    \A a, b \in budget :
        (a.unitID = b.unitID /\ a.category = b.category /\ a.year = b.year) => a = b

\* A CreateBudget whose key is taken, and an UpdateBudget that moves a row
\* to a key another row has, answer 500 and leave the table as it is.
DuplicateFails ==
    /\ (/\ reply' # reply /\ reply'.op = "CreateBudget"
        /\ ~reply'.req.malformed
        /\ BudgetsAt(reply'.req.unitID, reply'.req.category, reply'.req.year) # {})
          => reply'.resp.status = 500 /\ budget' = budget
    /\ (/\ reply' # reply /\ reply'.op = "UpdateBudget"
        /\ ~reply'.req.body.malformed
        /\ BudgetsAt(reply'.req.unitID, reply'.req.category, Atoi(reply'.req.year).val) # {}
        /\ <<reply'.req.body.unitID, reply'.req.body.category, reply'.req.body.year>>
             # <<reply'.req.unitID, reply'.req.category, Atoi(reply'.req.year).val>>
        /\ BudgetsAt(reply'.req.body.unitID, reply'.req.body.category, reply'.req.body.year) # {})
          => reply'.resp.status = 500 /\ budget' = budget

\* C10: after any sequence of CreateBudget, UpdateBudget and DeleteBudget
\* requests, concurrent ones included, at most one budget row exists per
\* (unit, category, year); a CreateBudget or UpdateBudget that would make a
\* second one fails and leaves the budget table unchanged.
C10_OneBudgetPerKey == []BudgetKeyUnique /\ [][DuplicateFails]_vars

\* C10 witness: both keys are stored and an UpdateBudget that moves one row
\* onto the key of the other has been answered 500 while another
\* UpdateBudget is between its two statements.
C10_Witness ==
    /\ reply.op = "UpdateBudget" /\ reply.resp.status = 500
    /\ reply.resp.text = "Failed to update budget"
    /\ reply.req.body.year # Atoi(reply.req.year).val
    /\ Cardinality(budget) = 2
    /\ \E n \in 1..MaxUpdaters : ub[n].pc = "update"

\* One evaluation, e before a step and en after it: the payment it returns
\* is the row stored when its first read ran, and its spent is the sum over
\* the rows stored when its fourth read ran.
EachReadOfItsOwnState(e, en) ==
    /\ (e.pc \in {"idle", "done"} /\ en.pc = "fetchRequest") => en.paid \in paid_expense
    /\ (e.pc = "sumSpent" /\ en.pc = "done" /\ en.status = 200)
          => /\ en.body.paidExpense = e.paid
             /\ en.body.budget.spent = SumOverIds(paidSeq, e.paid.unitID, e.paid.category, e.year)

\* Two finished evaluations of different payments of one unit, category and
\* year: while both payment rows are stored, at least one of the two spent
\* values counts both.
OmissionNotMutualWhileStored ==
    (/\ ev.pc = "done" /\ ev.status = 200
     /\ ev2.pc = "done" /\ ev2.status = 200
     /\ ev.body.paidExpense.id # ev2.body.paidExpense.id
     /\ ev.body.paidExpense.unitID = ev2.body.paidExpense.unitID
     /\ ev.body.paidExpense.category = ev2.body.paidExpense.category
     /\ ev.body.budget.year = ev2.body.budget.year
     /\ ev.body.paidExpense.createdAt.year = ev.body.budget.year
     /\ ev2.body.paidExpense.createdAt.year = ev.body.budget.year
     /\ ev.body.paidExpense \in paid_expense
     /\ ev2.body.paidExpense \in paid_expense)
        => LET both == ev.body.paidExpense.amount + ev2.body.paidExpense.amount
           IN  ev.body.budget.spent >= both \/ ev2.body.budget.spent >= both

RECURSIVE SumOfOthers(_, _, _, _, _)
\* The sum of MatchingAmount over the ids 1..n other than own.
SumOfOthers(n, own, unitID, category, year) ==
    IF n = 0 THEN 0
    ELSE (IF n = own THEN 0 ELSE MatchingAmount(n, unitID, category, year))
         + SumOfOthers(n - 1, own, unitID, category, year)

\* C12 as stated: whenever the evaluated payment was created in the year of
\* its linked request, the spent of a successful PayExpense is its amount
\* plus the amounts of the other matching payments.
C12_SpentIncludesOwnAmount ==
    [][ (/\ ev.pc = "sumSpent" /\ ev'.pc = "done" /\ ev'.status = 200
         /\ ev.paid.createdAt.year = ev.year)
            => ev'.body.budget.spent =
                  ev.paid.amount
                  + SumOfOthers(paidSeq, ev.paid.id, ev.paid.unitID, ev.paid.category, ev.year)
      ]_vars

\* C12 amended: the same, for an evaluation whose payment row is still
\* stored, unchanged, when the sum is read.
C12_SpentIncludesOwnAmountWhileStored ==
    [][ (/\ ev.pc = "sumSpent" /\ ev'.pc = "done" /\ ev'.status = 200
         /\ ev.paid.createdAt.year = ev.year
         /\ ev.paid \in paid_expense)
            => ev'.body.budget.spent =
                  ev.paid.amount
                  + SumOfOthers(paidSeq, ev.paid.id, ev.paid.unitID, ev.paid.category, ev.year)
      ]_vars

\* C12 witness: two stored payments of 1200.00 of one unit, category and
\* year; the evaluation of one of them returns spent 2400.00.
C12_Witness ==
    /\ ev.pc = "done" /\ ev.status = 200
    /\ ev.body.paidExpense.createdAt.year = ev.body.budget.year
    /\ ev.body.paidExpense \in paid_expense
    /\ ev.body.paidExpense.amount = 120000
    /\ ev.body.budget.spent = 240000
    /\ Cardinality(paid_expense) = 2

C14_PaymentReferencesRequest ==
    \A p \in paid_expense : \E r \in expense_request : r.id = p.expenseID

\* The (id, created_at) pairs of the stored payments.
IdStamps == { <<p.id, p.createdAt>> : p \in paid_expense }

\* C15: the id and the creation timestamp of a payment are the store's: an
\* insert gives the row the next value of the serial and NOW(), whatever id
\* and createdAt the body carries, and while the row exists no request
\* changes either of them.
C15_IdAndCreatedAtImmutable ==
    [][ /\ IdStamps' \ IdStamps \subseteq { <<paidSeq', NOW>> }
        /\ IdStamps' # IdStamps /\ IdStamps \subseteq IdStamps' => paidSeq' > paidSeq
        /\ \A p \in paid_expense :
              (\E q \in paid_expense' : q.id = p.id) => <<p.id, p.createdAt>> \in IdStamps'
        /\ (up.pc = "update" /\ up'.pc = "idle") => IdStamps' = IdStamps
        /\ \A p, q \in paid_expense' : p.id = q.id => p = q
      ]_vars

\* C15 witness: an UpdatePaidExpense whose body carries id 7 and a createdAt
\* of 2020 has been answered 200 for payment 1 on a later day; the row has
\* the body's unit and still its id 1 and its creation day.
C15_Witness ==
    /\ reply.op = "UpdatePaidExpense" /\ reply.resp.status = 200
    /\ reply.req.id = 1 /\ reply.req.body.id = 7 /\ reply.req.body.createdAt.year = 2020
    /\ clock > 0
    /\ \E p \in paid_expense :
          /\ p.id = 1 /\ p.unitID = "B" /\ p.unitID = reply.req.body.unitID
          /\ p.createdAt = Instant(0)

\* The creation year of each stored expense request.
RequestYears == { <<r.id, r.createdAt.year>> : r \in expense_request }

\* C16: the outcome of PayExpense depends on neither the expense_activity
\* table nor any field of the linked request but its creation year: the
\* stores before and after a step that changes expense_activity or
\* expense_request and leaves paid_expense, budget and the requests' ids and
\* creation years as they are give the same outcome for every id.
C16_OutcomeIndependentOfActivityAndRequestFields ==
    [][ ( /\ expense_activity' # expense_activity \/ expense_request' # expense_request
          /\ paid_expense' = paid_expense /\ budget' = budget /\ RequestYears' = RequestYears )
           => \A path \in PayPaths : PayExpense(path)' = PayExpense(path)
      ]_vars

\* C16 witness: payment 1 evaluates to a result in a store whose linked
\* request has had its user, unit, amount, category and finalized flag
\* changed and whose expense_activity has a changed record, and the
\* evaluation that ran gave that result.
C16_Witness ==
    /\ PayExpense(<<"1">>).status = 200
    /\ ev.pc = "done" /\ ev = PayExpense(<<"1">>)
    /\ \E r \in expense_request :
          r.id = 1 /\ r.userID = 2 /\ r.unitID = "B" /\ r.category = "y" /\ r.isFinalized
    /\ \E a \in expense_activity : a.currentState = "Rejected"

\* The request answered by the step is a CreateExpenseActivity or an
\* UpdateExpenseActivity with a well-formed body that the store served
\* without a failure of its own, and its state value is in vals: the value
\* is stored as given, in the new row or in the row of the path's id.
StateStoredAsGiven(vals) ==
    /\ ( /\ reply'.op = "CreateExpenseActivity"
         /\ ~reply'.req.malformed /\ ~reply'.fail
         /\ reply'.req.currentState \in vals )
       => /\ reply'.resp.status = 201
          /\ \E a \in expense_activity' \ expense_activity :
                /\ a.expenseID = reply'.req.expenseID
                /\ a.currentState = reply'.req.currentState
          /\ expense_activity \subseteq expense_activity'
    /\ ( /\ reply'.op = "UpdateExpenseActivity"
         /\ ~reply'.req.body.malformed /\ ~reply'.fail
         /\ reply'.req.body.currentState \in vals )
       => /\ reply'.resp.status = 200
          /\ \A a \in expense_activity' :
                a.id = reply'.req.id => a.currentState = reply'.req.body.currentState
          /\ { a.id : a \in expense_activity' } = { a.id : a \in expense_activity }

\* C17 as stated: CreateExpenseActivity and UpdateExpenseActivity store
\* whatever currentState they are given, after any earlier activities of the
\* expense, and never fail because of the value.
C17_AnyStateValueStored == [][StateStoredAsGiven(StateValues)]_vars

\* C17 amended: CreateExpenseActivity and UpdateExpenseActivity store every
\* currentState that fits the column current_state VARCHAR(256), at most 256
\* characters and no NUL, whether or not it is a constant of ExpenseState
\* and whatever the earlier activities of the expense are.
C17_FittingStateValueStored ==
    [][StateStoredAsGiven({ st \in StateValues : FitsVarchar256(st) })]_vars

\* C17 witness: expense 1 has an activity Rejected followed by a later
\* activity whose state is no constant of ExpenseState, put there by the
\* UpdateExpenseActivity just answered 200.
C17_Witness ==
    /\ \E a, b \in expense_activity :
          /\ a.expenseID = 1 /\ b.expenseID = 1 /\ a.id < b.id
          /\ a.currentState = "Rejected" /\ b.currentState = "Archived"
    /\ reply.op = "UpdateExpenseActivity" /\ reply.resp.status = 200
    /\ reply.req.body.currentState = "Archived"

\* C18: the id of POST /expense_requests/{id}/pay is looked up in
\* paid_expense alone: with an expense request of that id and no payment of
\* that id the answer is 404, and with a payment of that id that payment is
\* the one evaluated, whatever expense_request holds, unless the read itself
\* fails in the store.
C18_PayIdResolvedAgainstPaidExpense ==
    [][ (ev.pc \in {"idle", "done"} /\ ev' # ev /\ Atoi(ev'.path).ok)
           => LET id == Atoi(ev'.path).val
              IN  /\ ((\E r \in expense_request : r.id = id) /\ (\A p \in paid_expense : p.id # id))
                        => ev'.pc = "done" /\ ev'.status = 404
                  /\ (\E p \in paid_expense : p.id = id)
                        => \/ ev'.pc = "fetchRequest" /\ ev'.paid \in paid_expense /\ ev'.paid.id = id
                           \/ ev'.pc = "done" /\ ev'.status = 404 /\ ev'.err = "StoreFailure"
      ]_vars

\* C18 witness: the evaluation of id 2 returned payment 2, recorded for
\* request 1, while expense_request holds request 1 and no request 2.
C18_Witness ==
    /\ ev.pc = "done" /\ ev.status = 200 /\ ev.path = <<"2">>
    /\ ev.body.paidExpense.id = 2 /\ ev.body.paidExpense.expenseID = 1
    /\ \E r \in expense_request : r.id = 1
    /\ \A r \in expense_request : r.id # 2

\* The path id has a character that is neither a decimal digit nor a
\* leading sign.
NotNumeric(path) ==
    \E i \in 1..Len(path) :
        DigitValue(path[i]) < 0 /\ ~(i = 1 /\ path[i] \in {"+", "-"})

\* C19: PayExpense with an id that is not numeric answers 400 "Invalid ID"
\* from the conversion of the id, with no read of the store behind it: the
\* response is the same whatever the tables hold and whether or not the
\* store is failing.
C19_NonNumericIdIs400 ==
    [][ (ev.pc \in {"idle", "done"} /\ ev' # ev /\ NotNumeric(ev'.path))
           => ev' = [pc |-> "done", path |-> ev'.path, status |-> 400, err |-> "Atoi",
                     body |-> [text |-> "Invalid ID"]]
      ]_vars

\* C19 witness: the id 1x was answered 400 while payment 1, its request and
\* the budget of its key are stored.
C19_Witness ==
    /\ ev.pc = "done" /\ ev.status = 400 /\ ev.path = <<"1", "x">>
    /\ \E p \in paid_expense : p.id = 1
    /\ expense_request # {} /\ budget # {}

\* C20: PayExpense does not refuse a payment for being over the budget: the
\* last step of an evaluation whose chain is complete, the store not
\* failing, answers 200 with the payment also when the stored matching
\* amounts exceed the limit, rest being then negative, and when they exceed
\* budgetMax; the excess shows in the numbers of the result alone.
C20_OverBudgetNotRejected ==
    [][ (ev.pc = "sumSpent" /\ ev'.pc = "done" /\ ev'.err # "StoreFailure")
           => LET stored == SumOverIds(paidSeq, ev.paid.unitID, ev.paid.category, ev.year)
                  b      == ev'.body.budget
              IN  /\ ev'.status = 200
                  /\ ev'.body.paidExpense = ev.paid
                  /\ b.spent = stored /\ b.limit = ev.budget.budgetLimit
                  /\ stored > b.limit => b.rest < 0 /\ b.rest = b.limit - stored
                  /\ stored > b.budgetMax => b.spent > b.budgetMax /\ b.rest < 0
      ]_vars

\* C20 witness: an evaluation answered 200 with spent 2400.00 against a
\* limit of 1000.00 and a budgetMax of 1500.00, rest -1400.00.
C20_Witness ==
    /\ ev.pc = "done" /\ ev.status = 200
    /\ ev.body.budget.limit = 100000 /\ ev.body.budget.budgetMax = 150000
    /\ ev.body.budget.spent = 240000 /\ ev.body.budget.rest = -140000

\* C21: a successful PayExpense returns the payment as the row of the path
\* id was stored when it was read, all six fields, and a budget block whose
\* year is the creation year of the linked request as read and whose limit
\* and threshold are those of the budget row stored for (payment unit,
\* payment category, that year) when it was read.
C21_ResultBundlesStoredRows ==
    [][ /\ (ev.pc \in {"idle", "done"} /\ ev'.pc = "fetchRequest")
              => ev'.paid \in paid_expense /\ ev'.paid.id = Atoi(ev'.path).val
        /\ (ev.pc = "fetchRequest" /\ ev'.pc = "fetchBudget")
              => /\ ev'.paid = ev.paid
                 /\ \E r \in LinkedRequests(ev.paid) : ev'.year = r.createdAt.year
        /\ (ev.pc = "fetchBudget" /\ ev'.pc = "sumSpent")
              => /\ ev'.paid = ev.paid /\ ev'.year = ev.year
                 /\ ev'.budget \in BudgetsAt(ev.paid.unitID, ev.paid.category, ev.year)
        /\ (ev.pc = "sumSpent" /\ ev'.pc = "done" /\ ev'.status = 200)
              => /\ ev'.body.paidExpense = ev.paid
                 /\ DOMAIN ev'.body.paidExpense =
                       {"id", "expenseID", "unitID", "category", "amount", "createdAt"}
                 /\ ev'.body.budget.year = ev.year
                 /\ ev'.body.budget.limit = ev.budget.budgetLimit
                 /\ ev'.body.budget.threshold = ev.budget.thresholdRatio
      ]_vars

\* C21 witness: the result for payment 2, created in 2025 for a request of
\* 2024: the payment is the stored row 2, the year of the block is the
\* request's, limit and threshold are those of the stored budget of 2024.
C21_Witness ==
    /\ ev.pc = "done" /\ ev.status = 200 /\ ev.path = <<"2">>
    /\ ev.body.paidExpense \in paid_expense /\ ev.body.paidExpense.id = 2
    /\ ev.body.paidExpense.createdAt.year = 2025
    /\ \E r \in LinkedRequests(ev.body.paidExpense) :
          r.createdAt.year = 2024 /\ ev.body.budget.year = 2024
    /\ \E b \in BudgetsAt(ev.body.paidExpense.unitID, ev.body.paidExpense.category, 2024) :
          ev.body.budget.limit = b.budgetLimit /\ ev.body.budget.threshold = b.thresholdRatio

\* C22: no operation refuses a negative amount.  A CreatePaidExpense given
\* one, the store not failing, answers 201 and stores the row, and the sum
\* of its (unit, category, year) is lower after it than before; an
\* UpdatePaidExpense given one and answered 200 leaves the row of the path
\* id with it, and is otherwise refused only for the store's error; and the
\* spent that PayExpense reports is that sum.
C22_NegativeAmountStored ==
    [][ /\ ( /\ reply' # reply \/ paidSeq' # paidSeq
             /\ reply'.op = "CreatePaidExpense" /\ ~reply'.fail
             /\ reply'.req.amount < 0 )
           => /\ reply'.resp.status = 201
              /\ \E p \in paid_expense' \ paid_expense :
                    p.id = paidSeq' /\ p.amount = reply'.req.amount
              /\ \A u \in BudgetUnits, c \in BudgetCategories, y \in {YearOf(NOW)} :
                    (u = reply'.req.unitID /\ c = reply'.req.category)
                       => SumOverIds(paidSeq, u, c, y)' < SumOverIds(paidSeq, u, c, y)
        /\ (up.pc = "update" /\ up'.pc = "idle" /\ up.body.amount < 0)
           => \/ /\ reply'.resp.status = 200
                 /\ \A p \in paid_expense' : p.id = up.id => p.amount = up.body.amount
              \/ reply'.resp = [status |-> 500, text |-> "Database error"] /\ UNCHANGED paid_expense
        /\ (ev.pc = "sumSpent" /\ ev'.pc = "done" /\ ev'.status = 200)
           => ev'.body.budget.spent =
                 SumOverIds(paidSeq, ev.paid.unitID, ev.paid.category, ev.year)
      ]_vars

\* C22 witness: payment 1 of 1200.00 and payment 2 of -200.00 are stored for
\* one unit, category and year, and PayExpense reports spent 1000.00, less
\* than the amount of payment 1 alone.
C22_Witness ==
    /\ \E p, q \in paid_expense :
          /\ p.id = 1 /\ p.amount = 120000 /\ q.id = 2 /\ q.amount = -20000
          /\ p.unitID = q.unitID /\ p.category = q.category
    /\ ev.pc = "done" /\ ev.status = 200 /\ ev.body.budget.spent = 100000

\* The parameters supplied by the query string q, in the handler's order.
SuppliedKeys(q) == SelectSeq(ListKeys, LAMBDA key : q[key] # << >>)

\* The row p satisfies the filter key with the value chars.
SatisfiesFilter(p, key, chars) ==
    LET n == PgNumber(chars)
    IN  CASE key = "expense_id" -> n.ok /\ p.expenseID = n.val
          [] key = "unit_id"    -> p.unitID = TextOf(chars)
          [] key = "category"   -> p.category = TextOf(chars)
          [] key = "min_amount" -> n.ok /\ p.amount >= 100 * n.val
          [] key = "max_amount" -> n.ok /\ p.amount <= 100 * n.val
          [] key = "year"       -> n.ok /\ p.createdAt.year = n.val
          [] key = "month"      -> n.ok /\ p.createdAt.month = n.val
          [] key = "day"        -> n.ok /\ p.createdAt.day = n.val

\* The ListPaidExpenses answered by the step, the store not failing and the
\* query string among qs, returns the stored rows that satisfy every
\* supplied filter, all rows when none is supplied, and the statement it
\* built has the placeholders $1..$n in order, $i bound to the value of the
\* i-th supplied filter.
ListReturnsFilteredRows(qs) ==
    (reply' # reply /\ reply'.op = "ListPaidExpenses" /\ ~reply'.fail /\ reply'.req \in qs)
       => LET q     == reply'.req
              keys  == SuppliedKeys(q)
              built == reply'.resp.built
          IN  /\ reply'.resp.status = 200
              /\ reply'.resp.body =
                    { p \in paid_expense : \A i \in 1..Len(keys) : SatisfiesFilter(p, keys[i], q[keys[i]]) }
              /\ Len(built.filters) = Len(keys) /\ Len(built.args) = Len(keys)
              /\ \A i \in 1..Len(keys) :
                    /\ built.filters[i].key = keys[i]
                    /\ built.filters[i].placeholder = i
                    /\ built.args[i] = q[keys[i]]

\* C23 as stated: for every query string ListPaidExpenses returns exactly
\* the stored rows that satisfy every supplied non-empty filter.
C23_ListReturnsFilteredRows == [][ListReturnsFilteredRows(ListQueries)]_vars

\* The query strings whose values for the filters on numbers are numbers.
NumericQueries ==
    { q \in ListQueries :
        \A i \in 1..Len(ListKeys) :
            (q[ListKeys[i]] # << >> /\ ListKeys[i] \notin ListTextKeys) => PgNumber(q[ListKeys[i]]).ok }

\* C23 amended: for every query string whose values the store can compare
\* with the filtered columns, ListPaidExpenses returns exactly the stored
\* rows that satisfy every supplied non-empty filter, all rows when none is
\* supplied, with placeholders $1..$n bound in order to the supplied values.
C23_ListReturnsFilteredRowsOfNumericQueries == [][ListReturnsFilteredRows(NumericQueries)]_vars

\* C23 witness: of two stored payments, one of 2024-12-31 and one of
\* 2025-01-01, the list with category, max_amount and year supplied and the
\* other parameters absent returned the second alone, the three values
\* bound to $1, $2, $3.
C23_Witness ==
    /\ reply.op = "ListPaidExpenses" /\ reply.resp.status = 200
    /\ SuppliedKeys(reply.req) = <<"category", "max_amount", "year">>
    /\ reply.resp.built.args = << <<"x">>, <<"1", "0", "0", "0">>, <<"2", "0", "2", "5">> >>
    /\ Cardinality(paid_expense) = 2
    /\ \E p \in paid_expense : reply.resp.body = {p} /\ p.createdAt.year = 2025

\* C24: the UPDATE of an UpdatePaidExpense is answered 200 with the body
\* or, on the store's error, 500, whether or not the row found by the
\* existence check is still there.  When a DeletePaidExpense removed it in
\* between, a 200 leaves no row with the path id; when the row is there, a
\* 200 leaves the row of the path id with the body's expenseID, unitID,
\* category and amount.
C24_UpdateNotAtomicWithDelete ==
    [][ (up.pc = "update" /\ up'.pc = "idle")
           => /\ reply'.op = "UpdatePaidExpense" /\ reply'.resp.status \in {200, 500}
              /\ (reply'.resp.status = 200 /\ SelectPaid(up.id) = {})
                    => /\ reply'.resp.body = up.body
                       /\ \A p \in paid_expense' : p.id # up.id
              /\ (reply'.resp.status = 200 /\ SelectPaid(up.id) # {})
                    => \E p \in paid_expense' :
                          /\ p.id = up.id
                          /\ p.expenseID = up.body.expenseID /\ p.unitID = up.body.unitID
                          /\ p.category = up.body.category /\ p.amount = up.body.amount
      ]_vars

\* C24 witness: the last response is the 200 of an UpdatePaidExpense of
\* payment 1, and no payment 1 is stored: the row that the existence check
\* found was deleted before the UPDATE (a later delete would have been the
\* last response).
C24_Witness ==
    /\ reply.op = "UpdatePaidExpense" /\ reply.resp.status = 200 /\ reply.req.id = 1
    /\ up.pc = "idle"
    /\ \A p \in paid_expense : p.id # 1

\* An UpdateBudget answers at its existence check: with a well-formed
\* request whose path key has no row the answer is 404, or 500 for the
\* store's error, and the budget table is unchanged.
UpdateBudgetMissingIs404 ==
    (/\ reply' # reply /\ reply'.op = "UpdateBudget" /\ ub' = ub
     /\ Atoi(reply'.req.year).ok /\ Atoi(reply'.req.year).val # 0
     /\ ~reply'.req.body.malformed
     /\ BudgetsAt(reply'.req.unitID, reply'.req.category, Atoi(reply'.req.year).val) = {})
       => /\ \/ reply'.resp = [status |-> 404, text |-> "Budget record not found"]
             \/ reply'.resp = [status |-> 500, text |-> "Database error"]
          /\ budget' = budget

\* The UPDATE of the UpdateBudget request u, when stillStored only with the
\* row of the path key still stored: a success leaves a budget with the
\* body's key, limit and threshold and, the body's key differing from the
\* path key, none at the path key; with the body's key on another row the
\* answer is an error and the budget table is unchanged.
UpdateBudgetWrites(u, stillStored) ==
    (/\ ub[u].pc = "update" /\ ub'[u].pc = "idle"
     /\ stillStored => SelectBudget(ub[u].unitID, ub[u].category, ub[u].year) # {})
       => LET row == BudgetRow(ub[u].body)
              moved == <<row.unitID, row.category, row.year>>
                          # <<ub[u].unitID, ub[u].category, ub[u].year>>
          IN  /\ reply'.resp.status = 200
                    => /\ row \in budget'
                       /\ moved => \A b \in budget' :
                                      <<b.unitID, b.category, b.year>>
                                         # <<ub[u].unitID, ub[u].category, ub[u].year>>
              /\ (moved /\ BudgetsAt(row.unitID, row.category, row.year) # {})
                    => reply'.resp.status = 500 /\ budget' = budget

\* C25 as stated: UpdateBudget addresses the row by the path key and writes
\* the body's key and values; 404 without a row at the path key and an
\* error on a collision, the table unchanged in both cases.
C25_UpdateBudgetByPathKey ==
    [][UpdateBudgetMissingIs404 /\ \A u \in 1..MaxUpdaters : UpdateBudgetWrites(u, FALSE)]_vars

\* C25 amended: the same, for an UPDATE that finds the row of the path key
\* that the existence check saw still stored.
C25_UpdateBudgetByPathKeyWhileStored ==
    [][UpdateBudgetMissingIs404 /\ \A u \in 1..MaxUpdaters : UpdateBudgetWrites(u, TRUE)]_vars

\* C25 witness: an UpdateBudget of the path key (A, x, 2024) with a body of
\* year 2025 was answered 200: the body's row is stored and no row has the
\* path key.
C25_Witness ==
    /\ reply.op = "UpdateBudget" /\ reply.resp.status = 200
    /\ Atoi(reply.req.year).val = 2024 /\ reply.req.body.year = 2025
    /\ BudgetRow(reply.req.body) \in budget
    /\ BudgetsAt(reply.req.unitID, reply.req.category, 2024) = {}

\* C26: UpdatePaidExpense changes at most the row of the path id, whatever
\* non-zero id the body carries, also the id of another stored row; a body
\* whose id is 0 or missing is answered 400 and a path id without a row
\* 404, the table unchanged.
C26_UpdateTouchesPathRowOnly ==
    [][ /\ (up.pc = "update" /\ up'.pc = "idle")
              => /\ { p \in paid_expense' : p.id # up.id } = { p \in paid_expense : p.id # up.id }
                 /\ \A p \in paid_expense' : p.id = up.id => \E o \in paid_expense : o.id = up.id
        /\ (up.pc = "idle" /\ up'.pc = "update")
              => up'.body.id # 0 /\ SelectPaid(up'.id) # {} /\ UNCHANGED paid_expense
        /\ (reply' # reply /\ reply'.op = "UpdatePaidExpense" /\ up.pc = "idle" /\ up' = up
            /\ ~reply'.req.body.malformed)
              => /\ UNCHANGED paid_expense
                 /\ reply'.req.body.id = 0
                       => reply'.resp = [status |-> 400, text |-> "Missing or invalid ID in body"]
                 /\ (reply'.req.body.id # 0 /\ SelectPaid(reply'.req.id) = {})
                       => \/ reply'.resp = [status |-> 404, text |-> "Paid expense not found"]
                          \/ reply'.resp = [status |-> 500, text |-> "Database error"]
      ]_vars

\* C26 witness: an UpdatePaidExpense of path id 1 whose body carries id 2
\* was answered 200 while payment 2 is stored: payment 1 has the body's
\* unit, payment 2 another.
C26_Witness ==
    /\ reply.op = "UpdatePaidExpense" /\ reply.resp.status = 200
    /\ reply.req.id = 1 /\ reply.req.body.id = 2
    /\ \E p, q \in paid_expense :
          /\ p.id = 1 /\ p.unitID = reply.req.body.unitID
          /\ q.id = 2 /\ q.unitID # reply.req.body.unitID

\* A DeletePaidExpense answered by the step: with a row of the id it
\* removes that row and no other and answers 204, without one it answers
\* 404 and the table is unchanged (500 and unchanged on the store's error).
DeleteRemovesItsRow ==
    ((reply' # reply \/ paid_expense' # paid_expense) /\ reply'.op = "DeletePaidExpense")
       => LET rows == SelectPaid(reply'.req.id)
          IN  \/ reply'.resp.status = 500 /\ paid_expense' = paid_expense
              \/ /\ rows # {} /\ Cardinality(rows) = 1
                 /\ reply'.resp.status = 204 /\ paid_expense' = paid_expense \ rows
              \/ /\ rows = {}
                 /\ reply'.resp = [status |-> 404, text |-> "Paid expense not found"]
                 /\ paid_expense' = paid_expense

\* An id that appears in the table is above every id given out so far, the
\* deleted ones included.
NewIdsAreFresh ==
    \A p \in paid_expense' :
        (\A o \in paid_expense : o.id # p.id) => p.id > paidSeq /\ p.id = paidSeq'

\* No stored payment has an id above the last one given out.
IdsGivenOut == \A p \in paid_expense : p.id \in 1..paidSeq

\* C27: DeletePaidExpense removes exactly the row of the id and answers
\* 204, or answers 404 and changes nothing when no row has the id, so a
\* second delete of the id answers 404; CreatePaidExpense never gives out
\* the id of a deleted row again.
C27_DeleteOnceIdsNeverReused ==
    []IdsGivenOut /\ [][DeleteRemovesItsRow /\ NewIdsAreFresh]_vars

\* C27 witness: ids 1 and 2 were given out, payment 1 was deleted and is not
\* stored under any id, and the last response is the 404 of a further
\* delete of id 1.
C27_Witness ==
    /\ reply.op = "DeletePaidExpense" /\ reply.req.id = 1 /\ reply.resp.status = 404
    /\ paidSeq = 2
    /\ \A p \in paid_expense : p.id = 2
    /\ paid_expense # {}

\* C28: an UpdateExpenseRequest and an UpdateExpenseActivity with a
\* well-formed body for an id that no stored row has, the store not
\* failing, are both answered 404 and leave their tables unchanged.
C28_UpdateOfMissingRowIs404 ==
    [][ /\ (/\ reply' # reply /\ reply'.op = "UpdateExpenseRequest"
            /\ ~reply'.req.body.malformed /\ ~reply'.fail
            /\ SelectRequest(reply'.req.id) = {})
              => reply'.resp.status = 404 /\ UNCHANGED expense_request
        /\ (/\ reply' # reply /\ reply'.op = "UpdateExpenseActivity"
            /\ ~reply'.req.body.malformed /\ ~reply'.fail
            /\ \A a \in expense_activity : a.id # reply'.req.id)
              => reply'.resp.status = 404 /\ UNCHANGED expense_activity
      ]_vars

\* The users that the startup seeding takes for the admin.
AdminUsers == { r \in users : r.name = "admin" /\ r.roleID = "admin" }

\* C29: once the server has started, the unit_id of the seeded admin user
\* is the name of a stored unit.
C29_SeededAdminRefersToStoredUnit ==
    \A a \in AdminUsers : \E r \in unit : r.name = a.unitID

\* C30: createTablesIfNotExist run again with no request since the last
\* run changes no table and gives out no id, and every run with nothing
\* but runs before it leaves exactly one unit named Executive Management
\* and exactly one admin user.
C30_StartupIdempotent ==
    [][ /\ (reply.op = "createTablesIfNotExist" /\ reply'.op = "createTablesIfNotExist")
              => UNCHANGED tables /\ UNCHANGED userSeq
        /\ (reply.op \in {"none", "createTablesIfNotExist"}
            /\ reply'.op = "createTablesIfNotExist")
              => /\ Cardinality({ r \in unit' : r.name = "Executive Management" }) = 1
                 /\ Cardinality(AdminUsers') = 1
      ]_vars

\* C30 witness: the server has been started twice in a row, and the store
\* holds the one seeded unit and the one seeded admin user, with id 1.
C30_Witness ==
    /\ reply.op = "createTablesIfNotExist" /\ reply.n = 2
    /\ unit = {SeedUnit} /\ users = {SeedUser} /\ userSeq = 1
====
